---- MODULE Spec2Model ----
(***************************************************************************)
(* Model of the DuckingAI automation orchestrator (background script) and  *)
(* of the page-side message protocol of the content script.                *)
(*                                                                         *)
(* JavaScript runs one callback at a time; an async function gives up the  *)
(* processor at an await.  The suspension points that let other callbacks  *)
(* act on the state the function goes on to use are kept as separate       *)
(* actions: reading the pending record, tabs.query, fetch, the wait for    *)
(* the navigation, the resume timers and the callback of sendMessage.      *)
(* chrome.storage.local.get returns the record of the moment it is called. *)
(* A storage write (set, remove), tabs.update and tabs.create take effect  *)
(* when called and the code after their await, which reads nothing again,  *)
(* belongs to the same action.                                             *)
(* The 3 s pause before the promise of an 'Academics' step resolves is     *)
(* left out.  Time is counted in seconds (the source uses milliseconds).   *)
(*                                                                         *)
(* The element resolution of the content script (clickElement and          *)
(* waitForElement) is modelled for one call at a time, with its own clock  *)
(* counted in units of 50 ms.  Its callbacks (MutationObserver, interval,  *)
(* final timer) run one at a time; a timer fires at its time or later.     *)
(* The special handling of 'Find Course Sections' elements is left out:    *)
(* the steps modelled do not mention them.                                 *)
(*                                                                         *)
(* The activation that follows the resolution (the click of clickElement,  *)
(* with its branches for 'Academics' and Workday links and its fallback)   *)
(* is modelled on its own, from the element found to the outcome: the      *)
(* calls made on the element, the click events delivered, the default      *)
(* action of a link and the message sent to the background script.         *)
(***************************************************************************)
EXTENDS Integers, Sequences, FiniteSets, TLC

\* ---------------------------------------------------------------- bounds
MaxHandlers == 2      \* handleCurrentStep invocations alive at one time
MaxTrig     == 2      \* triggerAutomation / pollForAutomation invocations alive at one time
MaxEvents   == 1      \* outside events over a behaviour: explicit triggers,
                      \* polling ticks, page loads by the page or the user
MaxSingleEvents == 2  \* the same, in the scenario of SpecSingle
MaxReloadEvents == 2  \* the same, in the scenario of SpecReload
MaxSessionEvents == 2 \* the same, in the scenario of SpecSessions
MaxSkipEvents == 1    \* the same, in the scenario of SpecSkip
MaxCardEvents == 2    \* the same, in the scenario of SpecCard
MaxOverlapEvents == 2 \* the same, in the scenario of SpecOverlap
Epoch       == 1000   \* Date.now() when the extension starts
MaxDom      == 2      \* elements in the document
MaxResolveDom == 2    \* the same, in the scenario of SpecResolve
MaxBatch    == 2      \* entries of elementsToClick in one AUTOMATION_CLICK
MaxMutations == 2     \* changes of the document over a behaviour
MaxLate     == 2      \* how late a timer of the page may fire (units of 50 ms)
StepTimeout == 4      \* timeout of the step (units of 50 ms)

\* ------------------------------------------------------ program constants
ExplicitCooldown == 5     \* now - lastRunTime < 5000
PollCooldown     == 30    \* now - lastRunTime < 30000
RecentNavWindow  == 10    \* Date.now() - lastRunTime < 10000
PageLoadTimeout  == 30    \* setTimeout(..., 30000)
StaleAfter       == 300   \* 5 * 60 * 1000
MaxSessionIds    == 20    \* limitSetSize(set, maxSize = 20)
CHECK_INTERVAL   == 1     \* const CHECK_INTERVAL = 50 (units of 50 ms)
PollEvery        == 2     \* setInterval(..., 100) (units of 50 ms)

Handlers == 1..MaxHandlers
Trigs    == 1..MaxTrig
\* The time between an outside event and the state before it: none, the
\* cool-down of an explicit trigger, the cool-down of a poll.
Delays == {0, ExplicitCooldown, PollCooldown}

\* ------------------------------------------------------------ instructions
UrlHome    == "https://login.stevens.edu/app/UserHome"
UrlWorkday == "https://wd5.myworkday.com/stevens/"
UrlApp     == "https://example/app"
UrlBlank   == "about:blank"
Urls == {UrlHome, UrlApp, UrlBlank}

Step(a, c) == [action |-> a, critical |-> c]

\* The instructions the server can hand out.  "A" is the three-step example
\* of the specification (a critical first step), "B" a second multi-step
\* run, "C" and "E" single-step runs of two sessions and "D" an instruction
\* of an unknown action.  "W" is a two-step run on the home page whose first
\* step clicks the card of Workday (its description holds "workday").
Instr(name) ==
  CASE name = "A" -> [action |-> "multi_step_navigation", target_url |-> UrlApp,
                      session_id |-> "s1",
                      steps |-> << Step("click", TRUE),
                                   Step("click", FALSE),
                                   Step("verify_dialog", FALSE) >>]
    [] name = "B" -> [action |-> "multi_step_navigation", target_url |-> UrlHome,
                      session_id |-> "s2",
                      steps |-> << Step("verify_dialog", FALSE),
                                   Step("click", TRUE) >>]
    [] name = "C" -> [action |-> "navigate_and_click", target_url |-> UrlApp,
                      session_id |-> "s1",
                      steps |-> << Step("click", FALSE) >>]
    [] name = "E" -> [action |-> "navigate_and_click", target_url |-> UrlHome,
                      session_id |-> "s2",
                      steps |-> << Step("click", TRUE) >>]
    [] name = "W" -> [action |-> "multi_step_navigation", target_url |-> UrlHome,
                      session_id |-> "s4",
                      steps |-> << Step("click", TRUE),
                                   Step("click", FALSE) >>]
    [] OTHER      -> [action |-> "scrape", target_url |-> UrlApp,
                      session_id |-> "s3",
                      steps |-> << >>]

InstrNames == {"A", "B", "C", "D", "E"}
\* The ways a fetch fails: !response.ok, response.json() rejects, the body
\* has no instruction.
FetchErrors == {"http_error", "bad_json", "no_instruction"}
FetchOutcomes == FetchErrors \cup InstrNames

NumSteps(name) == Len(Instr(name).steps)

\* ------------------------------------------------------------------ state
VARIABLES
  isRunning, completedSessionIds, lastRunTime, navigationInProgress, lastNavigationUrl, processingLock,   \* automationState
  pendingAutomation,     \* chrome.storage.local, key 'pendingAutomation'
  now,                   \* Date.now()
  tab,                   \* the active tab
  trig,                  \* triggerAutomation / pollForAutomation invocations
  hc,                    \* handleCurrentStep invocations and resume timers
  pageWork,              \* dispatch numbers the content script is working on
  log,                   \* history: messages sent to the page and results received
  count,                 \* outside events left, and history: the run number,
                         \* the last fetch error caught by triggerAutomation,
                         \* the instruction whose navigation has timed out
                         \* with no instruction handed to executeAutomation
                         \* since, and the time of that timeout
  server,                \* the instructions the server hands out
  clock,                 \* Date.now() of the page, in units of 50 ms
  dom,                   \* the elements of the document, in document order
  click,                 \* the clickElement call of the content script
  wait,                  \* the waitForElement call it makes
  pageHist,              \* history: changes of the document left, whether some
                         \* tier matched on the document clickElement started on
  batch,                 \* the handleElementsToClick call of the content script
  act                    \* clickElement from the element it has found to its outcome

autoVars == << isRunning, completedSessionIds, lastRunTime, navigationInProgress, lastNavigationUrl, processingLock >>
pageVars == << clock, dom, click, wait, pageHist, batch, act >>
orchVars == << isRunning, completedSessionIds, lastRunTime, navigationInProgress, lastNavigationUrl, processingLock,
               pendingAutomation, now, tab, trig, hc, pageWork,
               log, count, server >>
vars == << orchVars, pageVars >>

\* ------------------------------------------------- the page: data
\* Texts are sequences of characters.
\* String.prototype.trim
RECURSIVE Trim(_)
Trim(s) ==
  IF s = << >> THEN s
  ELSE IF Head(s) = " " THEN Trim(Tail(s))
  ELSE IF s[Len(s)] = " " THEN Trim(SubSeq(s, 1, Len(s) - 1))
  ELSE s

\* String.prototype.includes
StrIncludes(s, t) ==
  \E i \in 0..(Len(s) - Len(t)) : SubSeq(s, i + 1, i + Len(t)) = t

\* String.prototype.toLowerCase
LowerChar(c) ==
  CASE c = "O" -> "o"
    [] c = "K" -> "k"
    [] c = "A" -> "a"
    [] OTHER   -> c
ToLowerCase(s) == [i \in 1..Len(s) |-> LowerChar(s[i])]

\* An element of the document: whether one of the selectors of the step
\* (selector, fallback_selectors) matches it, its tag, its textContent and
\* whether it carries role="dialog".
Element(sel, tag, text, dialog) ==
  [sel |-> sel, tag |-> tag, text |-> text, dialog |-> dialog]

Null == Element(FALSE, "null", << >>, FALSE)

Elements ==
  { Element(TRUE,  "div",    <<"x">>, FALSE),
    Element(TRUE,  "div",    <<" ", "a", "b", " ">>, FALSE),
    Element(FALSE, "li",     <<" ", "a", "b">>, FALSE),
    Element(FALSE, "li",     <<"x", "a", "b", "x">>, FALSE),
    Element(FALSE, "div",    <<"a", "b">>, FALSE),
    Element(FALSE, "button", <<"O", "K">>, FALSE),
    Element(FALSE, "div",    << >>, TRUE) }

\* Elements with the text "Academic" (written "A", "c"): a link, a button
\* and a plain div.
AcademicElements ==
  { Element(FALSE, "a",      <<"A", "c", "s">>, FALSE),
    Element(FALSE, "button", <<" ", "A", "c">>, FALSE),
    Element(FALSE, "div",    <<"A", "c">>, FALSE) }

AllElements == Elements \cup AcademicElements

\* The documents: up to MaxDom distinct elements in document order.
Documents ==
  { d \in UNION { [1..n -> Elements] : n \in 0..MaxDom } :
      \A i, j \in 1..Len(d) : i # j => d[i] # d[j] }

\* The steps the content script is asked to click: with or without a
\* text_content, with or without the word "dialog" in a selector.  textToFind
\* is the description with a trailing "button in ..." removed.
StepInfo(text, dialogSel) ==
  [text_content |-> text, dialogSel |-> dialogSel, textToFind |-> <<"O", "k">>,
   academics |-> FALSE, timeout |-> StepTimeout]

StepInfos ==
  { StepInfo(text, ds) : text \in {<< >>, <<"a", "b">>}, ds \in BOOLEAN }

\* The steps whose description is "Academics" (written "A", "c", "s"), with
\* or without a text_content.
AcademicsStepInfos ==
  { [StepInfo(text, FALSE) EXCEPT !.academics = TRUE,
                                  !.textToFind = <<"A", "c", "s">>]
    : text \in {<< >>, <<"a", "b">>} }

\* elements[0]: the first in document order of the elements of document d
\* at the positions in set S, null when there is none.
FirstMatch(d, S) ==
  IF S = {} THEN Null
  ELSE d[CHOOSE i \in S : \A j \in S : i <= j]

\* The positions of document d whose element is in set E.
Positions(d, E) == {i \in 1..Len(d) : d[i] \in E}

\* '[role="option"], li, [data-automation-id*="option"], .dropdown-option,
\* [role="menuitem"]'
OptionLike(e) == e.tag = "li"

\* 'button, a, div[role="button"], [role="menuitem"], .gwt-Label,
\* [data-automation-id]'
ButtonLike(e) == e.tag \in {"button", "a"}

\* clickElement, the special handling of a step whose description holds
\* "Academics": of the interactive elements (a button, a link, an element
\* with a role, tabindex or data-automation-id attribute) whose trimmed text
\* holds "Academic", the first button, else the first of them.  Every
\* element of the model is visible.
Interactive(e) == e.tag \in {"button", "a"} \/ e.dialog

AcademicsSearch(d) ==
  LET Candidates == {e \in AllElements : /\ StrIncludes(Trim(e.text), <<"A", "c">>)
                                         /\ Interactive(e)}
      Buttons    == {e \in Candidates : e.tag = "button"}
  IN  IF Positions(d, Buttons) # {} THEN FirstMatch(d, Positions(d, Buttons))
      ELSE FirstMatch(d, Positions(d, Candidates))

\* clickElement, the search by text_content: the elements the selectors
\* match, filtered by the text, then the option-like elements of the page
\* whose trimmed text holds the text and is less than twice as long.
TextContentSearch(d, s) ==
  LET BySelector == {e \in AllElements : e.sel /\ StrIncludes(Trim(e.text), s.text_content)}
      Broader == {e \in AllElements : /\ OptionLike(e)
                                   /\ StrIncludes(Trim(e.text), s.text_content)
                                   /\ Len(Trim(e.text)) < Len(s.text_content) * 2}
  IN  IF s.text_content = << >> THEN Null
      ELSE IF Positions(d, BySelector) # {} THEN FirstMatch(d, Positions(d, BySelector))
      ELSE FirstMatch(d, Positions(d, Broader))

\* clickElement, the regular search: document.querySelectorAll(sel)[0].
SelectorSearch(d) ==
  FirstMatch(d, Positions(d, {e \in AllElements : e.sel}))

\* clickElement, the last resort after the wait: the button-like elements
\* whose text holds textToFind, letter case ignored.
LooseSearch(d, s) ==
  FirstMatch(d, Positions(d, {e \in AllElements :
       /\ ButtonLike(e)
       /\ StrIncludes(ToLowerCase(e.text), ToLowerCase(s.textToFind))}))

\* waitForElement, checkForElement: the selectors, then what the words in
\* the selectors switch on; of these only the dialog search applies to the
\* steps modelled ('[role="dialog"], [aria-modal="true"], .wd-popup').
checkForElement(d, s) ==
  IF SelectorSearch(d) # Null THEN SelectorSearch(d)
  ELSE IF s.dialogSel THEN FirstMatch(d, Positions(d, {e \in AllElements : e.dialog}))
  ELSE Null

\* Some tier of the resolution matches an element of document d for step s.
AnyTierMatches(d, s) ==
  \/ s.academics /\ AcademicsSearch(d) # Null
  \/ TextContentSearch(d, s) # Null
  \/ checkForElement(d, s) # Null
  \/ LooseSearch(d, s) # Null

\* No clickElement is running.
ClickIdle == [pc |-> "idle", step |-> StepInfo(<< >>, FALSE), result |-> Null,
              start |-> 0, end |-> 0]

\* No waitForElement is running: no observer, interval or timer is set.
WaitIdle == [startTime |-> 0, lastCheckTime |-> 0, element |-> Null,
             observer |-> FALSE, interval |-> FALSE, nextTick |-> 0,
             timer |-> FALSE, resolved |-> FALSE, value |-> Null,
             resolvedAt |-> 0, rescans |-> 0]

\* No handleElementsToClick is running and none has reported.
BatchIdle == [pc |-> "idle", elements |-> << >>, results |-> << >>,
              reported |-> "none"]

\* The element clickElement has found, as far as its activation goes: whether
\* it is a link (tagName a) or lies inside one (closest("a")), the href of
\* that link ("" when the link has none), and whether it has a click method
\* (an HTML element has, an SVG element, such as an icon inside a link, has
\* not, so element.click() raises a TypeError).
Target(link, href, hasClick) == [link |-> link, href |-> href, hasClick |-> hasClick]

NoTarget == Target("none", "", TRUE)

Targets ==
  { Target("none", "", c) : c \in BOOLEAN }
  \cup { Target("self", h, TRUE) : h \in {"", UrlWorkday} }
  \cup { Target("inside", h, c) : h \in {"", UrlWorkday}, c \in BOOLEAN }

\* What the activation reads of the description of the step:
\* description.includes("Academics"), description.toLowerCase().includes("workday").
Descriptions == [academics : BOOLEAN, workday : BOOLEAN]

\* No activation is running.  `calls` is the history of the activation calls
\* made (element.click(), element.dispatchEvent(clickEvent)), `listener`
\* says whether the once-listener that stops the default action is on the
\* element, `navigated` whether a click event has set off the navigation of
\* the link, `message` is the WORKDAY_CARD_CLICKED message sent, `error` the
\* call whose error clickElement has thrown.
ActIdle == [pc |-> "idle", element |-> NoTarget,
            description |-> [academics |-> FALSE, workday |-> FALSE],
            pagePrevents |-> FALSE, calls |-> << >>, listener |-> FALSE,
            navigated |-> FALSE, message |-> [sent |-> FALSE, href |-> ""],
            result |-> "none", error |-> 0]

PageIdle ==
  /\ clock = 0
  /\ dom = << >>
  /\ click = ClickIdle
  /\ wait = WaitIdle
  /\ pageHist = [mutations |-> 0, matchAtStart |-> FALSE]
  /\ batch = BatchIdle
  /\ act = ActIdle

NoRecord == [present |-> FALSE, instruction |-> "none", currentStepIndex |-> 0,
             lastUpdated |-> 0, executedSteps |-> << >>]

Record(instr, idx, executed) ==
  [present |-> TRUE, instruction |-> instr, currentStepIndex |-> idx,
   lastUpdated |-> now, executedSteps |-> executed]

HandlerIdle == [pc |-> "idle", instruction |-> "none", currentStepIndex |-> 0,
                executedSteps |-> << >>, lastUpdated |-> 0,
                isLastStep |-> FALSE, parent |-> 0,
                n |-> 0, response |-> "none"]

TrigIdle == [pc |-> "idle", viaPoll |-> FALSE, instruction |-> "none",
             lastUpdated |-> 0, navStart |-> 0]

Includes(seq, x) == \E i \in 1..Len(seq) : seq[i] = x

\* chrome.storage.local outlives the background script: when the extension
\* starts (installed again, updated, reloaded) the store can hold the record
\* an earlier run has left, written a moment or more than 5 minutes ago.
\* A record the code writes has the steps before its index as executedSteps.
StoredRecords ==
  { [present |-> TRUE, instruction |-> i, currentStepIndex |-> k,
     lastUpdated |-> Epoch - age, executedSteps |-> [j \in 1..k |-> j - 1]]
    : i \in {"A", "B"}, k \in 0..1, age \in {0, StaleAfter + 1} }

Init ==
  /\ PageIdle
  /\ isRunning = FALSE
  /\ completedSessionIds = << >>
  /\ lastRunTime = 0
  /\ navigationInProgress = FALSE
  /\ lastNavigationUrl = "null"
  /\ processingLock = FALSE
  /\ pendingAutomation \in {NoRecord} \cup StoredRecords
  /\ now = Epoch
  /\ tab \in { [open |-> o, url |-> UrlBlank, status |-> "complete", script |-> o]
               : o \in BOOLEAN }
  /\ trig = [t \in Trigs |-> TrigIdle]
  /\ hc = [h \in Handlers |-> HandlerIdle]
  /\ pageWork = {}
  /\ log = << >>
  /\ count = [budget |-> MaxEvents, run |-> 0, caught |-> "none",
              timedOut |-> "none", timedOutAt |-> 0]
  /\ server = InstrNames


\* ------------------------------------------------------------- helpers
FreeHandlers == {h \in Handlers : hc[h].pc = "idle"}
FreeTrigs    == {t \in Trigs : trig[t].pc = "idle"}

\* A new invocation takes the lowest free slot.
NewHandler(h) == h \in FreeHandlers /\ \A g \in FreeHandlers : h <= g
NewTrig(t)    == t \in FreeTrigs /\ \A u \in FreeTrigs : t <= u

\* A callback of chrome.storage, chrome.tabs.query or chrome.tabs.sendMessage
\* is outstanding, or a timer of 1 or 2 seconds is set.  Seconds pass only
\* when none is: such a callback runs within the second, and every delay of
\* the model is longer than the timers.  A fetch, a page load and the work
\* of the content script can take any time.
CallbacksDue ==
  \/ \E t \in Trigs : trig[t].pc \in {"t_got_pending", "p_got_pending", "p_got_tabs",
                                      "t_resume_tabs", "e_got_tabs", "e_settle"}
  \/ \E h \in Handlers : hc[h].pc # "idle"

TimePasses(d) == d > 0 => ~CallbacksDue

\* A message reaches the content script only when the script has set up its
\* listener in the page the tab shows; otherwise chrome.runtime.lastError is
\* set in the callback.
Deliverable == tab.open /\ tab.script

IsStale(rec) == now - rec.lastUpdated > StaleAfter

\* History of a message sent to the page: which step of which run, what the
\* content script was still working on, and whether the record the step was
\* read from was more than 5 minutes old.
LogEntry(type, payload, instr, idx, stale) ==
  [ev |-> "dispatch", type |-> type, payload |-> payload,
   instruction |-> instr, index |-> idx,
   run |-> count.run, n |-> Len(log) + 1, outstanding |-> pageWork,
   stale |-> stale, ok |-> TRUE, delivered |-> Deliverable]

\* History of an instruction the server has handed out and of what
\* triggerAutomation did with it.
FetchEntry(instr, type) ==
  [ev |-> "fetch", type |-> type, payload |-> << >>,
   instruction |-> instr, index |-> 0,
   run |-> IF type = "executed" THEN count.run + 1 ELSE count.run, n |-> Len(log) + 1, outstanding |-> {},
   stale |-> FALSE, ok |-> TRUE, delivered |-> FALSE]

\* chrome.tabs.sendMessage(tabId, {type, ...}, callback)
SendMessage(type, payload, instr, idx, stale) ==
  /\ log' = Append(log, LogEntry(type, payload, instr, idx, stale))
  /\ pageWork' = IF Deliverable THEN pageWork \cup {Len(log) + 1} ELSE pageWork

SendResponse == IF Deliverable THEN "received" ELSE "lastError"

\* The invocation of triggerAutomation returns (or its rejection has been
\* caught); a poll that awaited it releases the processing lock in its
\* finally block.
TrigReturn(t) ==
  /\ trig' = [trig EXCEPT ![t] = TrigIdle]
  /\ processingLock' = IF trig[t].viaPoll THEN FALSE ELSE processingLock

\* completedSessionIds.add(sessionId): a Set keeps insertion order and holds
\* a value once.
SetAdd(set, x) == IF Includes(set, x) THEN set ELSE Append(set, x)

\* limitSetSize deleting, of the ids the set held before the insertion, the
\* one inserted last instead of the one inserted first.
limitSetSizeDropsLatest(set, maxSize) ==
  IF Len(set) > maxSize
  THEN Append(SubSeq(set, 1, Len(set) - 2), set[Len(set)])
  ELSE set

\* limitSetSize(set, maxSize): one element, the oldest, is deleted when the
\* size exceeds maxSize.
limitSetSize(set, maxSize) ==
  IF Len(set) > maxSize THEN Tail(set) ELSE set

\* The end of the try block of triggerAutomation: executeAutomation has
\* returned, the session id is recorded.  The run-lock stays set.
RecordSession(t) ==
  /\ completedSessionIds' =
       limitSetSize(SetAdd(completedSessionIds,
                           Instr(trig[t].instruction).session_id),
                    MaxSessionIds)
  /\ TrigReturn(t)

\* The promise of handleCurrentStep settles, with the run-lock at `running`.
\* An invocation a timer has started only logs the outcome.  An awaiting
\* caller goes on at once: the resume branch of triggerAutomation releases
\* the run-lock whatever the outcome; executeAutomation returns to
\* triggerAutomation, which records the session id, or the rejection passes
\* the catch block of executeAutomation (navigationInProgress is reset on
\* the navigation path) and reaches the catch block of triggerAutomation.
Settle(h, outcome, running) ==
  LET t == hc[h].parent IN
  /\ hc' = [hc EXCEPT ![h] = HandlerIdle]
  /\ IF t = 0
     THEN /\ isRunning' = running
          /\ UNCHANGED << trig, processingLock, completedSessionIds,
                          navigationInProgress >>
     ELSE IF trig[t].pc = "t_resume_wait"
     THEN /\ isRunning' = FALSE
          /\ TrigReturn(t)
          /\ UNCHANGED << completedSessionIds, navigationInProgress >>
     ELSE IF outcome = "resolved"
     THEN /\ isRunning' = running
          /\ RecordSession(t)
          /\ UNCHANGED navigationInProgress
     ELSE /\ isRunning' = FALSE
          /\ navigationInProgress' =
               IF trig[t].pc = "e_step_wait" THEN FALSE
               ELSE navigationInProgress
          /\ TrigReturn(t)
          /\ UNCHANGED completedSessionIds

\* ------------------------------------------------- handleCurrentStep
\* The call of handleCurrentStep(tabId, instruction) up to its first
\* suspension: a navigate_and_click instruction sends its elements at once,
\* a multi_step_navigation instruction reads the pending record.
CallHandleCurrentStep(h, instr, parent) ==
  IF Instr(instr).action = "navigate_and_click"
  THEN /\ SendMessage("AUTOMATION_CLICK", Instr(instr).steps, instr, 0, FALSE)
       /\ hc' = [hc EXCEPT ![h] =
                   [pc |-> "click_wait", instruction |-> instr,
                    currentStepIndex |-> 0, executedSteps |-> << >>,
                    lastUpdated |-> 0,
                    isLastStep |-> TRUE, parent |-> parent,
                    n |-> Len(log) + 1, response |-> SendResponse]]
  ELSE /\ hc' = [hc EXCEPT ![h] =
                   [pc |-> "got_pending", instruction |-> instr,
                    currentStepIndex |-> pendingAutomation.currentStepIndex,
                    executedSteps |-> pendingAutomation.executedSteps,
                    lastUpdated |-> IF pendingAutomation.present
                                    THEN pendingAutomation.lastUpdated
                                    ELSE now,
                    isLastStep |-> FALSE, parent |-> parent,
                    n |-> 0, response |-> "none"]]
       /\ UNCHANGED << log, pageWork >>

\* setTimeout(() => handleCurrentStep(...), 2000) of a resume path fires.
HcStart(h) ==
  /\ UNCHANGED pageVars
  /\ hc[h].pc = "timer"
  /\ CallHandleCurrentStep(h, hc[h].instruction, 0)
  /\ UNCHANGED << autoVars, pendingAutomation, now, tab, trig, count, server >>

\* handleCurrentStep sending a verify_dialog step as an AUTOMATION_CLICK.
HcGotPendingClicksOnly(h) ==
  /\ UNCHANGED pageVars
  /\ hc[h].pc = "got_pending"
  /\ LET instr == hc[h].instruction
         idx   == hc[h].currentStepIndex
         ex    == hc[h].executedSteps
         N     == NumSteps(instr)
         stale == IsStale(hc[h])
     IN
     IF Includes(ex, idx)
     THEN \* step already executed: advance without dispatching
          /\ IF idx + 1 >= N
             THEN /\ pendingAutomation' = NoRecord
                  /\ Settle(h, "resolved", FALSE)
             ELSE \* save the next index, then handleCurrentStep again
                  /\ pendingAutomation' = Record(instr, idx + 1, ex)
                  /\ hc' = [hc EXCEPT ![h].currentStepIndex = idx + 1,
                                      ![h].lastUpdated = now]
                  /\ UNCHANGED << isRunning, trig, processingLock,
                                  completedSessionIds, navigationInProgress >>
          /\ UNCHANGED << log, pageWork >>
     ELSE IF idx < N
     THEN /\ IF Instr(instr).steps[idx + 1].action = "verify_dialog"
             THEN /\ SendMessage("AUTOMATION_CLICK", << Instr(instr).steps[idx + 1] >>,
                                  instr, idx, stale)
                  /\ hc' = [hc EXCEPT ![h].pc = "verify_wait",
                                      ![h].n = Len(log) + 1,
                                      ![h].response = SendResponse]
                  /\ UNCHANGED pendingAutomation
             ELSE \* executedSteps.push; the next index is saved unless this
                  \* is the last step; then AUTOMATION_CLICK is sent
                  /\ pendingAutomation' =
                       IF idx + 1 >= N THEN pendingAutomation
                       ELSE Record(instr, idx + 1, Append(ex, idx))
                  /\ SendMessage("AUTOMATION_CLICK", << Instr(instr).steps[idx + 1] >>,
                                  instr, idx, stale)
                  /\ hc' = [hc EXCEPT ![h].pc = "click_wait",
                                      ![h].executedSteps = Append(ex, idx),
                                      ![h].isLastStep = (idx + 1 >= N),
                                      ![h].n = Len(log) + 1,
                                      ![h].response = SendResponse]
          /\ UNCHANGED << isRunning, trig, processingLock,
                          completedSessionIds, navigationInProgress >>
     ELSE /\ pendingAutomation' = NoRecord
          /\ Settle(h, "resolved", FALSE)
          /\ UNCHANGED << log, pageWork >>
  /\ UNCHANGED << lastRunTime, lastNavigationUrl, now, tab, count, server >>

\* The code after `await chrome.storage.local.get('pendingAutomation')`.
HcGotPending(h) ==
  /\ UNCHANGED pageVars
  /\ hc[h].pc = "got_pending"
  /\ LET instr == hc[h].instruction
         idx   == hc[h].currentStepIndex
         ex    == hc[h].executedSteps
         N     == NumSteps(instr)
         stale == IsStale(hc[h])
     IN
     IF Includes(ex, idx)
     THEN \* step already executed: advance without dispatching
          /\ IF idx + 1 >= N
             THEN /\ pendingAutomation' = NoRecord
                  /\ Settle(h, "resolved", FALSE)
             ELSE \* save the next index, then handleCurrentStep again
                  /\ pendingAutomation' = Record(instr, idx + 1, ex)
                  /\ hc' = [hc EXCEPT ![h].currentStepIndex = idx + 1,
                                      ![h].lastUpdated = now]
                  /\ UNCHANGED << isRunning, trig, processingLock,
                                  completedSessionIds, navigationInProgress >>
          /\ UNCHANGED << log, pageWork >>
     ELSE IF idx < N
     THEN /\ IF Instr(instr).steps[idx + 1].action = "verify_dialog"
             THEN /\ SendMessage("VERIFY_DIALOG", << Instr(instr).steps[idx + 1] >>,
                                  instr, idx, stale)
                  /\ hc' = [hc EXCEPT ![h].pc = "verify_wait",
                                      ![h].n = Len(log) + 1,
                                      ![h].response = SendResponse]
                  /\ UNCHANGED pendingAutomation
             ELSE \* executedSteps.push; the next index is saved unless this
                  \* is the last step; then AUTOMATION_CLICK is sent
                  /\ pendingAutomation' =
                       IF idx + 1 >= N THEN pendingAutomation
                       ELSE Record(instr, idx + 1, Append(ex, idx))
                  /\ SendMessage("AUTOMATION_CLICK", << Instr(instr).steps[idx + 1] >>,
                                  instr, idx, stale)
                  /\ hc' = [hc EXCEPT ![h].pc = "click_wait",
                                      ![h].executedSteps = Append(ex, idx),
                                      ![h].isLastStep = (idx + 1 >= N),
                                      ![h].n = Len(log) + 1,
                                      ![h].response = SendResponse]
          /\ UNCHANGED << isRunning, trig, processingLock,
                          completedSessionIds, navigationInProgress >>
     ELSE /\ pendingAutomation' = NoRecord
          /\ Settle(h, "resolved", FALSE)
          /\ UNCHANGED << log, pageWork >>
  /\ UNCHANGED << lastRunTime, lastNavigationUrl, now, tab, count, server >>

\* The callback of sendMessage for AUTOMATION_CLICK: after the last step the
\* record is removed and the run-lock cleared.
HcClickResponse(h) ==
  /\ UNCHANGED pageVars
  /\ hc[h].pc = "click_wait"
  /\ IF hc[h].response = "lastError"
     THEN /\ Settle(h, "rejected", isRunning)
          /\ UNCHANGED pendingAutomation
     ELSE IF hc[h].isLastStep
     THEN /\ pendingAutomation' = NoRecord
          /\ Settle(h, "resolved", FALSE)
     ELSE /\ Settle(h, "resolved", isRunning)
          /\ UNCHANGED pendingAutomation
  /\ UNCHANGED << lastRunTime, lastNavigationUrl, now, tab,
                  pageWork, log, count, server >>

\* The callback of sendMessage for VERIFY_DIALOG: executedSteps.push, then
\* the record is removed (last step) or the next index is saved.
HcVerifyResponse(h) ==
  /\ UNCHANGED pageVars
  /\ hc[h].pc = "verify_wait"
  /\ LET instr == hc[h].instruction
         idx   == hc[h].currentStepIndex
         ex    == Append(hc[h].executedSteps, idx)
     IN
     IF hc[h].response = "lastError"
     THEN /\ Settle(h, "rejected", isRunning)
          /\ UNCHANGED pendingAutomation
     ELSE IF idx + 1 >= NumSteps(instr)
     THEN /\ pendingAutomation' = NoRecord
          /\ Settle(h, "resolved", FALSE)
     ELSE /\ pendingAutomation' = Record(instr, idx + 1, ex)
          /\ Settle(h, "resolved", isRunning)
  /\ UNCHANGED << lastRunTime, lastNavigationUrl, now, tab,
                  pageWork, log, count, server >>

\* ------------------------------------------------------ content script
\* handleElementsToClick / verifyDialogForm finishes for dispatch n.  ok says
\* whether the element (the dialog) was found and acted on.  A click batch
\* that fails on a critical element throws; any other batch returns its
\* result list.
ResultType(n, ok) ==
  IF log[n].type = "VERIFY_DIALOG"
  THEN IF ok THEN "DIALOG_VERIFIED" ELSE "DIALOG_VERIFICATION_FAILED"
  ELSE IF ~ok /\ Instr(log[n].instruction).steps[log[n].index + 1].critical
       THEN "AUTOMATION_FAILED" ELSE "AUTOMATION_COMPLETED"

\* The content script finishes dispatch n and reports the outcome with
\* chrome.runtime.sendMessage; the onMessage listener of the orchestrator
\* runs handleAutomationCompleted or handleAutomationFailed, which both only
\* clear the run-lock (DIALOG_VERIFIED and DIALOG_VERIFICATION_FAILED go to
\* the same two functions).  The content script has called sendResponse
\* before it starts on the request, and messages of one sender arrive in
\* order, so the callback of sendMessage has run before the result arrives.
OnResultMessage(n, ok) ==
  /\ UNCHANGED pageVars
  /\ n \in pageWork
  /\ \A h \in Handlers : hc[h].pc \in {"click_wait", "verify_wait"} => hc[h].n # n
  /\ pageWork' = pageWork \ {n}
  /\ log' = Append(log, [log[n] EXCEPT !.ev = "result", !.type = ResultType(n, ok),
                                      !.n = n, !.outstanding = {},
                                      !.ok = ok])
  /\ isRunning' = FALSE
  /\ UNCHANGED << completedSessionIds, lastRunTime,
                  navigationInProgress, lastNavigationUrl, processingLock,
                  pendingAutomation, now, tab, trig, hc, count, server >>

\* CONTENT_SCRIPT_LOADED{readyForAutomation: true}: the content script of the
\* page has started.  The handler reads the record and, when there is one,
\* starts the 2 s resume timer; it does not look at lastUpdated.
OnContentScriptLoaded(h) ==
  /\ UNCHANGED pageVars
  /\ tab.open /\ ~tab.script
  /\ tab' = [tab EXCEPT !.script = TRUE]
  /\ IF pendingAutomation.present
     THEN /\ NewHandler(h)
          /\ hc' = [hc EXCEPT ![h] = [HandlerIdle EXCEPT
                       !.pc = "timer",
                       !.instruction = pendingAutomation.instruction]]
     ELSE /\ h = 1
          /\ UNCHANGED hc
  /\ UNCHANGED << autoVars, pendingAutomation, now, trig, pageWork, log, count, server >>

\* description.toLowerCase().includes("workday") for step idx of the
\* instruction.
IsWorkdayCard(name, idx) == name = "W" /\ idx = 0

\* const workdayUrl = message.href || 'https://wd5.myworkday.com/stevens/'
WorkdayUrl(href) == IF href = "" THEN UrlWorkday ELSE href

\* WORKDAY_CARD_CLICKED{href}: the content script, at work on dispatch n, has
\* clicked the card of Workday, a link whose own navigation it has stopped.
\* Unless a navigation is in progress the handler sets navigationInProgress
\* and sends the tab to the link target; the callback of tabs.update only
\* logs.  The page is torn down by the navigation; `sent` says whether the
\* content script had sent the outcome of the dispatch before.
OnWorkdayCardClicked(n, href, sent) ==
  /\ UNCHANGED pageVars
  /\ n \in pageWork
  /\ log[n].type = "AUTOMATION_CLICK"
  /\ IsWorkdayCard(log[n].instruction, log[n].index)
  /\ \A i \in 1..Len(log) : log[i].ev = "card" => log[i].n # n
  /\ \A h \in Handlers : hc[h].pc \in {"click_wait", "verify_wait"} => hc[h].n # n
  /\ log' = Append(log, [log[n] EXCEPT !.ev = "card",
                                      !.type = "WORKDAY_CARD_CLICKED",
                                      !.n = n, !.outstanding = {}])
  /\ IF ~navigationInProgress
     THEN /\ navigationInProgress' = TRUE
          /\ tab' = [open |-> TRUE, url |-> WorkdayUrl(href),
                     status |-> "loading", script |-> FALSE]
          /\ pageWork' = IF sent THEN {n} ELSE {}
     ELSE UNCHANGED << navigationInProgress, tab, pageWork >>
  /\ UNCHANGED << isRunning, completedSessionIds, lastRunTime,
                  lastNavigationUrl, processingLock, pendingAutomation,
                  now, trig, hc, count, server >>

\* ------------------------------------------------------------ the tab
\* The page starts to load another document (a click that navigates, the
\* user): the content script and what it was doing are gone.
TabLoad(u) ==
  /\ UNCHANGED pageVars
  /\ tab.open
  /\ count.budget > 0
  /\ u \in Urls
  /\ tab' = [open |-> TRUE, url |-> u, status |-> "loading", script |-> FALSE]
  /\ pageWork' = {}
  /\ count' = [count EXCEPT !.budget = @ - 1]
  /\ UNCHANGED << autoVars, pendingAutomation, now, trig, hc,
                  log, server >>

\* chrome.tabs.onUpdated with changeInfo.status === 'complete'.  Two listeners
\* run: the global one (a record older than 5 minutes is removed, any other
\* record starts the 2 s resume timer) and the listener executeAutomation has
\* registered while it waits for its navigation.
TabComplete(h) ==
  /\ UNCHANGED pageVars
  /\ tab.open /\ tab.status = "loading"
  /\ tab' = [tab EXCEPT !.status = "complete"]
  /\ IF pendingAutomation.present /\ ~IsStale(pendingAutomation)
     THEN /\ NewHandler(h)
          /\ hc' = [hc EXCEPT ![h] = [HandlerIdle EXCEPT
                       !.pc = "timer",
                       !.instruction = pendingAutomation.instruction]]
          /\ UNCHANGED pendingAutomation
     ELSE /\ h = 1
          /\ pendingAutomation' = NoRecord
          /\ UNCHANGED hc
  /\ trig' = [t \in Trigs |->
                IF trig[t].pc = "e_wait_nav"
                THEN [trig[t] EXCEPT !.pc = "e_settle"] ELSE trig[t]]
  /\ navigationInProgress' =
        IF \E t \in Trigs : trig[t].pc = "e_wait_nav"
        THEN FALSE ELSE navigationInProgress
  /\ UNCHANGED << isRunning, completedSessionIds, lastRunTime, lastNavigationUrl, processingLock, now, pageWork, log, count, server >>

\* -------------------------------------------------- triggerAutomation
\* The call of triggerAutomation() up to its first await: the run-lock is
\* checked, then the pending record is read.
CallTriggerAutomation(t, viaPoll) ==
  trig' = IF isRunning
          THEN [trig EXCEPT ![t] = TrigIdle]
          ELSE [trig EXCEPT ![t] =
                  [pc |-> "t_got_pending", viaPoll |-> viaPoll,
                   instruction |-> pendingAutomation.instruction,
                   lastUpdated |-> pendingAutomation.lastUpdated,
                   navStart |-> 0]]

\* TRIGGER_AUTOMATION message, context menu entry or keyboard command.
Trigger(t, d) ==
  /\ UNCHANGED pageVars
  /\ count.budget > 0
  /\ NewTrig(t)
  /\ d \in Delays
  /\ TimePasses(d)
  /\ now' = now + d
  /\ count' = [count EXCEPT !.budget = @ - 1]
  /\ CallTriggerAutomation(t, FALSE)
  /\ UNCHANGED << autoVars, pendingAutomation, tab, hc, pageWork, log, server >>

\* pollForAutomation that does not test processingLock.
PollIgnoresLock(t, d) ==
  /\ UNCHANGED pageVars
  /\ count.budget > 0
  /\ NewTrig(t)
  /\ d \in Delays
  /\ TimePasses(d)
  /\ now' = now + d
  /\ count' = [count EXCEPT !.budget = @ - 1]
  /\ IF isRunning
     THEN UNCHANGED << trig, processingLock >>
     ELSE IF navigationInProgress
     THEN UNCHANGED << trig, processingLock >>
     ELSE /\ processingLock' = TRUE
          /\ trig' = [trig EXCEPT ![t] =
                        [pc |-> "p_got_pending", viaPoll |-> TRUE,
                         instruction |-> pendingAutomation.instruction,
                         lastUpdated |-> pendingAutomation.lastUpdated,
                         navStart |-> 0]]
  /\ UNCHANGED << isRunning, completedSessionIds, lastRunTime, navigationInProgress, lastNavigationUrl, pendingAutomation,
                  tab, hc, pageWork, log, server >>

\* The polling interval fires: pollForAutomation up to its first await.
Poll(t, d) ==
  /\ UNCHANGED pageVars
  /\ count.budget > 0
  /\ NewTrig(t)
  /\ d \in Delays
  /\ TimePasses(d)
  /\ now' = now + d
  /\ count' = [count EXCEPT !.budget = @ - 1]
  /\ IF isRunning \/ processingLock
     THEN UNCHANGED << trig, processingLock >>
     ELSE IF navigationInProgress
     THEN UNCHANGED << trig, processingLock >>
     ELSE /\ processingLock' = TRUE
          /\ trig' = [trig EXCEPT ![t] =
                        [pc |-> "p_got_pending", viaPoll |-> TRUE,
                         instruction |-> pendingAutomation.instruction,
                         lastUpdated |-> pendingAutomation.lastUpdated,
                         navStart |-> 0]]
  /\ UNCHANGED << isRunning, completedSessionIds, lastRunTime, navigationInProgress, lastNavigationUrl, pendingAutomation,
                  tab, hc, pageWork, log, server >>

\* pollForAutomation after the record was read: a record ends the poll.
PollGotPending(t) ==
  /\ UNCHANGED pageVars
  /\ trig[t].pc = "p_got_pending"
  /\ IF trig[t].instruction # "none"
     THEN TrigReturn(t)
     ELSE /\ trig' = [trig EXCEPT ![t].pc = "p_got_tabs"]
          /\ UNCHANGED processingLock
  /\ UNCHANGED << isRunning, completedSessionIds, lastRunTime, navigationInProgress, lastNavigationUrl, pendingAutomation,
                  now, tab, hc, pageWork, log, count, server >>

\* currentUrl.includes('login.stevens.edu/app/UserHome') ||
\* currentUrl.includes('workday') || currentUrl === lastNavigationUrl
AlreadySatisfied(url) ==
  url = UrlHome \/ url = UrlWorkday \/ url = lastNavigationUrl

CurrentUrl == IF tab.open THEN tab.url ELSE ""

\* pollForAutomation after tabs.query: the URL test, the 30 s cool-down, then
\* triggerAutomation is called.
PollGotTabs(t) ==
  /\ UNCHANGED pageVars
  /\ trig[t].pc = "p_got_tabs"
  /\ IF AlreadySatisfied(CurrentUrl) \/ now - lastRunTime < PollCooldown
     THEN TrigReturn(t)
     ELSE /\ CallTriggerAutomation(t, TRUE)
          /\ processingLock' = ~isRunning
  /\ UNCHANGED << isRunning, completedSessionIds, lastRunTime, navigationInProgress, lastNavigationUrl, pendingAutomation,
                  now, tab, hc, pageWork, log, count, server >>

\* triggerAutomation without its resume branch: the record is ignored.
TrigGotPendingNoResume(t) ==
  /\ UNCHANGED pageVars
  /\ trig[t].pc = "t_got_pending"
  /\ IF now - lastRunTime < ExplicitCooldown
     THEN /\ TrigReturn(t)
          /\ UNCHANGED << isRunning, lastRunTime >>
     ELSE /\ isRunning' = TRUE
          /\ lastRunTime' = now
          /\ trig' = [trig EXCEPT ![t].pc = "t_fetch"]
          /\ UNCHANGED processingLock
  /\ UNCHANGED << completedSessionIds, navigationInProgress,
                  lastNavigationUrl, pendingAutomation, now, tab, hc,
                  pageWork, log, count, server >>

\* triggerAutomation after the record was read: a record is resumed, else
\* the 5 s cool-down is tested and the instruction is fetched.
TrigGotPending(t) ==
  /\ UNCHANGED pageVars
  /\ trig[t].pc = "t_got_pending"
  /\ IF trig[t].instruction # "none"
     THEN /\ isRunning' = TRUE
          /\ trig' = [trig EXCEPT ![t].pc = "t_resume_tabs"]
          /\ UNCHANGED << lastRunTime, processingLock >>
     ELSE IF now - lastRunTime < ExplicitCooldown
     THEN /\ TrigReturn(t)
          /\ UNCHANGED << isRunning, lastRunTime >>
     ELSE /\ isRunning' = TRUE
          /\ lastRunTime' = now
          /\ trig' = [trig EXCEPT ![t].pc = "t_fetch"]
          /\ UNCHANGED processingLock
  /\ UNCHANGED << completedSessionIds, navigationInProgress,
                  lastNavigationUrl, pendingAutomation, now, tab, hc,
                  pageWork, log, count, server >>

\* The resume branch after tabs.query: handleCurrentStep is called with the
\* instruction of the record.
TrigResumeTabs(t, h) ==
  /\ UNCHANGED pageVars
  /\ trig[t].pc = "t_resume_tabs"
  /\ IF tab.open
     THEN /\ NewHandler(h)
          /\ CallHandleCurrentStep(h, trig[t].instruction, t)
          /\ trig' = [trig EXCEPT ![t].pc = "t_resume_wait"]
          /\ UNCHANGED << isRunning, processingLock >>
     ELSE /\ h = 1
          /\ isRunning' = FALSE
          /\ TrigReturn(t)
          /\ UNCHANGED << hc, log, pageWork >>
  /\ UNCHANGED << completedSessionIds, lastRunTime, navigationInProgress, lastNavigationUrl, pendingAutomation,
                  now, tab, count, server >>

\* triggerAutomation without the test of completedSessionIds.
TrigFetchedNoDedup(t, outcome) ==
  /\ UNCHANGED pageVars
  /\ trig[t].pc = "t_fetch"
  /\ outcome \in FetchErrors \cup server
  /\ IF outcome \in FetchErrors
     THEN /\ isRunning' = FALSE
          /\ TrigReturn(t)
          /\ count' = [count EXCEPT !.caught = outcome]
          /\ UNCHANGED log
     ELSE IF Instr(outcome).action \notin {"navigate_and_click", "multi_step_navigation"}
     THEN /\ isRunning' = FALSE
          /\ TrigReturn(t)
          /\ log' = Append(log, FetchEntry(outcome, "unsupported"))
          /\ UNCHANGED count
     ELSE /\ trig' = [trig EXCEPT ![t].pc = "e_got_tabs",
                                  ![t].instruction = outcome]
          /\ count' = [count EXCEPT !.run = @ + 1, !.timedOut = "none"]
          /\ log' = Append(log, FetchEntry(outcome, "executed"))
          /\ UNCHANGED << isRunning, processingLock >>
  /\ UNCHANGED << completedSessionIds, lastRunTime, navigationInProgress, lastNavigationUrl, pendingAutomation,
                  now, tab, hc, pageWork, server >>

\* triggerAutomation whose catch block does not release the run-lock.
TrigFetchedKeepsLock(t, outcome) ==
  /\ UNCHANGED pageVars
  /\ trig[t].pc = "t_fetch"
  /\ outcome \in FetchErrors \cup server
  /\ IF outcome \in FetchErrors
     THEN /\ TrigReturn(t)
          /\ count' = [count EXCEPT !.caught = outcome]
          /\ UNCHANGED << isRunning, log >>
     ELSE IF Includes(completedSessionIds, Instr(outcome).session_id)
     THEN /\ isRunning' = FALSE
          /\ TrigReturn(t)
          /\ log' = Append(log, FetchEntry(outcome, "discarded"))
          /\ UNCHANGED count
     ELSE IF Instr(outcome).action \notin {"navigate_and_click", "multi_step_navigation"}
     THEN /\ isRunning' = FALSE
          /\ TrigReturn(t)
          /\ log' = Append(log, FetchEntry(outcome, "unsupported"))
          /\ UNCHANGED count
     ELSE /\ trig' = [trig EXCEPT ![t].pc = "e_got_tabs",
                                  ![t].instruction = outcome]
          /\ count' = [count EXCEPT !.run = @ + 1, !.timedOut = "none"]
          /\ log' = Append(log, FetchEntry(outcome, "executed"))
          /\ UNCHANGED << isRunning, processingLock >>
  /\ UNCHANGED << completedSessionIds, lastRunTime, navigationInProgress, lastNavigationUrl, pendingAutomation,
                  now, tab, hc, pageWork, server >>

\* triggerAutomation after fetch and response.json(): errors, the session
\* dedup test, then executeAutomation up to its tabs.query.
TrigFetched(t, outcome) ==
  /\ UNCHANGED pageVars
  /\ trig[t].pc = "t_fetch"
  /\ outcome \in FetchErrors \cup server
  /\ IF outcome \in FetchErrors
     THEN \* throw, caught at the end of triggerAutomation
          /\ isRunning' = FALSE
          /\ TrigReturn(t)
          /\ count' = [count EXCEPT !.caught = outcome]
          /\ UNCHANGED log
     ELSE IF Includes(completedSessionIds, Instr(outcome).session_id)
     THEN /\ isRunning' = FALSE
          /\ TrigReturn(t)
          /\ log' = Append(log, FetchEntry(outcome, "discarded"))
          /\ UNCHANGED count
     ELSE IF Instr(outcome).action \notin {"navigate_and_click", "multi_step_navigation"}
     THEN \* executeAutomation throws `Unsupported action`
          /\ isRunning' = FALSE
          /\ TrigReturn(t)
          /\ log' = Append(log, FetchEntry(outcome, "unsupported"))
          /\ UNCHANGED count
     ELSE /\ trig' = [trig EXCEPT ![t].pc = "e_got_tabs",
                                  ![t].instruction = outcome]
          /\ count' = [count EXCEPT !.run = @ + 1, !.timedOut = "none"]
          /\ log' = Append(log, FetchEntry(outcome, "executed"))
          /\ UNCHANGED << isRunning, processingLock >>
  /\ UNCHANGED << completedSessionIds, lastRunTime, navigationInProgress, lastNavigationUrl, pendingAutomation,
                  now, tab, hc, pageWork, server >>

\* chrome.tabs.update(tab.id, {url}) / chrome.tabs.create({url})
Navigate(url) ==
  /\ tab' = [open |-> TRUE, url |-> url, status |-> "loading", script |-> FALSE]
  /\ pageWork' = {}

\* executeAutomation without the test for the tab being at the target: the
\* tab is sent there whatever it shows.
ExecGotTabsAlwaysNavigates(t, h) ==
  /\ UNCHANGED pageVars
  /\ trig[t].pc = "e_got_tabs"
  /\ LET instr  == trig[t].instruction
         target == Instr(instr).target_url
     IN
     IF ~tab.open
     THEN /\ h = 1
          /\ Navigate(target)
          /\ RecordSession(t)
          /\ UNCHANGED << navigationInProgress, lastNavigationUrl,
                          pendingAutomation, hc, log >>
     ELSE /\ h = 1
          /\ navigationInProgress' = TRUE
          /\ lastNavigationUrl' = target
          /\ pendingAutomation' =
               IF Instr(instr).action = "multi_step_navigation"
               THEN Record(instr, 0, << >>) ELSE pendingAutomation
          /\ Navigate(target)
          /\ trig' = [trig EXCEPT ![t].pc = "e_wait_nav", ![t].navStart = now]
          /\ UNCHANGED << hc, log, completedSessionIds, processingLock >>
  /\ UNCHANGED << isRunning, lastRunTime, now, count, server >>

\* executeAutomation after tabs.query.
ExecGotTabs(t, h) ==
  /\ UNCHANGED pageVars
  /\ trig[t].pc = "e_got_tabs"
  /\ LET instr  == trig[t].instruction
         target == Instr(instr).target_url
     IN
     IF ~tab.open
     THEN \* no active tab: create one and return; the session id is recorded
          /\ h = 1
          /\ Navigate(target)
          /\ RecordSession(t)
          /\ UNCHANGED << navigationInProgress, lastNavigationUrl,
                          pendingAutomation, hc, log >>
     ELSE IF tab.url = target
             \/ (lastNavigationUrl = target /\ now - lastRunTime < RecentNavWindow)
     THEN \* already there: return handleCurrentStep(tab.id, instruction)
          /\ NewHandler(h)
          /\ CallHandleCurrentStep(h, instr, t)
          /\ trig' = [trig EXCEPT ![t].pc = "e_skip_wait"]
          /\ UNCHANGED << navigationInProgress, lastNavigationUrl,
                          pendingAutomation, tab, completedSessionIds,
                          processingLock >>
     ELSE \* the record of a multi-step run is saved, the tab is sent to the
          \* target and the onUpdated listener and the 30 s timeout are set up
          /\ h = 1
          /\ navigationInProgress' = TRUE
          /\ lastNavigationUrl' = target
          /\ pendingAutomation' =
               IF Instr(instr).action = "multi_step_navigation"
               THEN Record(instr, 0, << >>) ELSE pendingAutomation
          /\ Navigate(target)
          /\ trig' = [trig EXCEPT ![t].pc = "e_wait_nav", ![t].navStart = now]
          /\ UNCHANGED << hc, log, completedSessionIds, processingLock >>
  /\ UNCHANGED << isRunning, lastRunTime, now, count, server >>

\* The 30 s timeout fires before the tab has reported 'complete' (by then
\* the clock shows at least navStart + 30): the listener is removed and the
\* rejection travels to the catch blocks of executeAutomation and
\* triggerAutomation.
ExecNavTimeout(t) ==
  /\ UNCHANGED pageVars
  /\ trig[t].pc = "e_wait_nav"
  /\ TimePasses(trig[t].navStart + PageLoadTimeout - now)
  /\ now' = IF now - trig[t].navStart >= PageLoadTimeout THEN now
            ELSE trig[t].navStart + PageLoadTimeout
  /\ navigationInProgress' = FALSE
  /\ isRunning' = FALSE
  /\ TrigReturn(t)
  /\ count' = [count EXCEPT !.timedOut = trig[t].instruction,
                            !.timedOutAt = now']
  /\ UNCHANGED << completedSessionIds, lastRunTime, lastNavigationUrl,
                  pendingAutomation, tab, hc, pageWork, log, server >>

\* The 1 s settle timer after the navigation fires: handleCurrentStep.
ExecSettle(t, h) ==
  /\ UNCHANGED pageVars
  /\ trig[t].pc = "e_settle"
  /\ NewHandler(h)
  /\ CallHandleCurrentStep(h, trig[t].instruction, t)
  /\ trig' = [trig EXCEPT ![t].pc = "e_step_wait"]
  /\ UNCHANGED << autoVars, pendingAutomation, now, tab, count, server >>

\* ---------------------------------------------------------------- Next
Orchestrator ==
  \/ \E t \in Trigs, d \in Delays : Trigger(t, d)
  \/ \E t \in Trigs, d \in Delays : Poll(t, d)
  \/ \E t \in Trigs : PollGotPending(t)
  \/ \E t \in Trigs : PollGotTabs(t)
  \/ \E t \in Trigs : TrigGotPending(t)
  \/ \E t \in Trigs, h \in Handlers : TrigResumeTabs(t, h)
  \/ \E t \in Trigs, o \in FetchOutcomes : TrigFetched(t, o)
  \/ \E t \in Trigs, h \in Handlers : ExecGotTabs(t, h)
  \/ \E t \in Trigs : ExecNavTimeout(t)
  \/ \E t \in Trigs, h \in Handlers : ExecSettle(t, h)

StepHandler ==
  \/ \E h \in Handlers : HcStart(h)
  \/ \E h \in Handlers : HcGotPending(h)
  \/ \E h \in Handlers : HcClickResponse(h)
  \/ \E h \in Handlers : HcVerifyResponse(h)

Messages ==
  \/ \E n \in pageWork, ok \in BOOLEAN : OnResultMessage(n, ok)
  \/ \E h \in Handlers : OnContentScriptLoaded(h)

Environment ==
  \/ \E u \in Urls : TabLoad(u)
  \/ \E h \in Handlers : TabComplete(h)

Next == Orchestrator \/ StepHandler \/ Messages \/ Environment

NextQuiet ==
  \/ Orchestrator
  \/ \E h \in Handlers : HcGotPending(h)
  \/ \E h \in Handlers : HcClickResponse(h)
  \/ \E h \in Handlers : HcVerifyResponse(h)
  \/ Messages
  \/ \E h \in Handlers : TabComplete(h)

Spec == Init /\ [][Next]_vars

\* A second scenario: the server hands out only the single-step and the
\* unknown instruction, the store can hold a record of the three-step run,
\* and no page loads but through the orchestrator.  The runs are short, so
\* more outside events are explored.  An instruction is fetched, and the tab
\* sent to its target, only when the store holds no record, and a
\* single-step run writes none: no page gets ready while there is a record,
\* so no resume timer is ever set and HcStart has nothing to start.
SingleInstrNames == {"C", "D"}

InitSingle ==
  /\ PageIdle
  /\ isRunning = FALSE
  /\ completedSessionIds = << >>
  /\ lastRunTime = 0
  /\ navigationInProgress = FALSE
  /\ lastNavigationUrl = "null"
  /\ processingLock = FALSE
  /\ pendingAutomation \in {NoRecord} \cup {r \in StoredRecords : r.instruction = "A"}
  /\ now = Epoch
  /\ tab \in { [open |-> o, url |-> UrlBlank, status |-> "complete", script |-> o]
               : o \in BOOLEAN }
  /\ trig = [t \in Trigs |-> TrigIdle]
  /\ hc = [h \in Handlers |-> HandlerIdle]
  /\ pageWork = {}
  /\ log = << >>
  /\ count = [budget |-> MaxSingleEvents, run |-> 0, caught |-> "none",
              timedOut |-> "none", timedOutAt |-> 0]
  /\ server = SingleInstrNames

SpecSingle == InitSingle /\ [][NextQuiet]_vars

\* A third scenario: a run of the three-step instruction is on its way (step
\* 0 done, the record a moment old, the page loaded) and the page may load
\* again, by the click of a step or by the user.
InitReload ==
  /\ PageIdle
  /\ isRunning = FALSE
  /\ completedSessionIds = << >>
  /\ lastRunTime = 0
  /\ navigationInProgress = FALSE
  /\ lastNavigationUrl = "null"
  /\ processingLock = FALSE
  /\ pendingAutomation = [present |-> TRUE, instruction |-> "A", currentStepIndex |-> 1,
                          lastUpdated |-> Epoch, executedSteps |-> <<0>>]
  /\ now = Epoch
  /\ tab = [open |-> TRUE, url |-> UrlApp, status |-> "complete", script |-> TRUE]
  /\ trig = [t \in Trigs |-> TrigIdle]
  /\ hc = [h \in Handlers |-> HandlerIdle]
  /\ pageWork = {}
  /\ log = << >>
  /\ count = [budget |-> MaxReloadEvents, run |-> 0, caught |-> "none",
              timedOut |-> "none", timedOutAt |-> 0]
  /\ server = SingleInstrNames

SpecReload == InitReload /\ [][Next]_vars

\* A fourth scenario: the worker has been up for a while and the dedup set
\* holds the ids of earlier runs, one short of its capacity or at capacity.
\* The server hands out two single-step instructions, whose session ids are
\* new to the set; as in the second scenario no page loads but through the
\* orchestrator.
PastSessions ==
  << "p01", "p02", "p03", "p04", "p05", "p06", "p07", "p08", "p09", "p10",
     "p11", "p12", "p13", "p14", "p15", "p16", "p17", "p18", "p19", "p20" >>

SessionInstrNames == {"C", "E"}

InitSessions ==
  /\ PageIdle
  /\ isRunning = FALSE
  /\ completedSessionIds \in
       { SubSeq(PastSessions, 1, n) : n \in (MaxSessionIds - 1)..MaxSessionIds }
  /\ lastRunTime = 0
  /\ navigationInProgress = FALSE
  /\ lastNavigationUrl = "null"
  /\ processingLock = FALSE
  /\ pendingAutomation = NoRecord
  /\ now = Epoch
  /\ tab \in { [open |-> o, url |-> UrlBlank, status |-> "complete", script |-> o]
               : o \in BOOLEAN }
  /\ trig = [t \in Trigs |-> TrigIdle]
  /\ hc = [h \in Handlers |-> HandlerIdle]
  /\ pageWork = {}
  /\ log = << >>
  /\ count = [budget |-> MaxSessionEvents, run |-> 0, caught |-> "none",
              timedOut |-> "none", timedOutAt |-> 0]
  /\ server = SessionInstrNames

\* With single-step instructions and an empty store no record is ever
\* written: the resume branch of triggerAutomation and the step handler of a
\* multi-step run have nothing to work on.
NextSessions ==
  \/ \E t \in Trigs, d \in Delays : Trigger(t, d)
  \/ \E t \in Trigs, d \in Delays : Poll(t, d)
  \/ \E t \in Trigs : PollGotPending(t)
  \/ \E t \in Trigs : PollGotTabs(t)
  \/ \E t \in Trigs : TrigGotPending(t)
  \/ \E t \in Trigs, o \in FetchOutcomes : TrigFetched(t, o)
  \/ \E t \in Trigs, h \in Handlers : ExecGotTabs(t, h)
  \/ \E t \in Trigs : ExecNavTimeout(t)
  \/ \E t \in Trigs, h \in Handlers : ExecSettle(t, h)
  \/ \E h \in Handlers : HcClickResponse(h)
  \/ Messages
  \/ \E h \in Handlers : TabComplete(h)

SpecSessions == InitSessions /\ [][NextSessions]_vars

\* A fifth scenario: the store is empty and the tab already shows the page
\* the three-step and the single-step instruction are aimed at, or the
\* worker sent the tab there in a run 30 s ago and the tab has moved on.
SkipInstrNames == {"A", "C"}

InitSkip ==
  /\ PageIdle
  /\ isRunning = FALSE
  /\ completedSessionIds = << >>
  /\ navigationInProgress = FALSE
  /\ lastNavigationUrl \in {"null", UrlApp}
  /\ lastRunTime = IF lastNavigationUrl = "null" THEN 0 ELSE Epoch - PollCooldown
  /\ processingLock = FALSE
  /\ pendingAutomation = NoRecord
  /\ now = Epoch
  /\ tab \in { [open |-> TRUE, url |-> u, status |-> "complete", script |-> TRUE]
               : u \in {UrlApp, UrlBlank} }
  /\ trig = [t \in Trigs |-> TrigIdle]
  /\ hc = [h \in Handlers |-> HandlerIdle]
  /\ pageWork = {}
  /\ log = << >>
  /\ count = [budget |-> MaxSkipEvents, run |-> 0, caught |-> "none",
              timedOut |-> "none", timedOutAt |-> 0]
  /\ server = SkipInstrNames

\* The one outside event of the scenario is needed for the instruction to be
\* fetched, so no trigger finds the record of the run: the resume branch of
\* triggerAutomation is not part of the scenario.
NextSkip ==
  \/ \E t \in Trigs, d \in Delays : Trigger(t, d)
  \/ \E t \in Trigs, d \in Delays : Poll(t, d)
  \/ \E t \in Trigs : PollGotPending(t)
  \/ \E t \in Trigs : PollGotTabs(t)
  \/ \E t \in Trigs : TrigGotPending(t)
  \/ \E t \in Trigs, o \in FetchOutcomes : TrigFetched(t, o)
  \/ \E t \in Trigs, h \in Handlers : ExecGotTabs(t, h)
  \/ \E t \in Trigs : ExecNavTimeout(t)
  \/ \E t \in Trigs, h \in Handlers : ExecSettle(t, h)
  \/ StepHandler
  \/ Messages
  \/ Environment

SpecSkip == InitSkip /\ [][NextSkip]_vars

\* A scenario of the card of Workday: the store is empty, the tab shows the
\* home page, where the card is, the server hands out the instruction whose
\* first step clicks the card, and the page loads only through the
\* orchestrator.  The first outside event is an explicit trigger, the later
\* ones are ticks of the polling interval.  In every other scenario no step names the card, so the
\* content script never sends WORKDAY_CARD_CLICKED there.
\* The tab is at the target, so executeAutomation does not navigate and sets
\* no timer; no explicit trigger finds a record to resume; the instruction
\* has no verify_dialog step.
CardInstrNames == {"W"}

InitCard ==
  /\ PageIdle
  /\ isRunning = FALSE
  /\ completedSessionIds = << >>
  /\ lastRunTime = 0
  /\ navigationInProgress = FALSE
  /\ lastNavigationUrl = "null"
  /\ processingLock = FALSE
  /\ pendingAutomation = NoRecord
  /\ now = Epoch
  /\ tab = [open |-> TRUE, url |-> UrlHome, status |-> "complete", script |-> TRUE]
  /\ trig = [t \in Trigs |-> TrigIdle]
  /\ hc = [h \in Handlers |-> HandlerIdle]
  /\ pageWork = {}
  /\ log = << >>
  /\ count = [budget |-> MaxCardEvents, run |-> 0, caught |-> "none",
              timedOut |-> "none", timedOutAt |-> 0]
  /\ server = CardInstrNames

NextCard ==
  \/ \E t \in Trigs, d \in Delays : count.budget = MaxCardEvents /\ Trigger(t, d)
  \/ \E t \in Trigs, d \in Delays : count.budget < MaxCardEvents /\ Poll(t, d)
  \/ \E t \in Trigs : PollGotPending(t)
  \/ \E t \in Trigs : PollGotTabs(t)
  \/ \E t \in Trigs : TrigGotPending(t)
  \/ \E t \in Trigs, o \in FetchErrors \cup CardInstrNames : TrigFetched(t, o)
  \/ \E t \in Trigs, h \in Handlers : ExecGotTabs(t, h)
  \/ \E h \in Handlers : HcStart(h)
  \/ \E h \in Handlers : HcGotPending(h)
  \/ \E h \in Handlers : HcClickResponse(h)
  \/ \E n \in 1..Len(log), ok \in BOOLEAN : OnResultMessage(n, ok)
  \/ \E n \in 1..Len(log), href \in {"", UrlWorkday}, sent \in BOOLEAN :
       OnWorkdayCardClicked(n, href, sent)
  \/ \E h \in Handlers : OnContentScriptLoaded(h)
  \/ \E h \in Handlers : TabComplete(h)

SpecCard == InitCard /\ [][NextCard]_vars

\* A scenario of two runs that overlap: the store holds the record an
\* earlier run of the two-step instruction has left at its last step, a
\* moment or more than 5 minutes ago, the tab is open, the server hands out
\* the same instruction.  The first outside event is a page load by the
\* user, which resumes the run of the record; the later ones are explicit
\* triggers that follow at once.
OverlapRecords ==
  {r \in StoredRecords : r.instruction = "B" /\ r.currentStepIndex = 1}

OverlapInstrNames == {"B"}

InitOverlap ==
  /\ PageIdle
  /\ isRunning = FALSE
  /\ completedSessionIds = << >>
  /\ lastRunTime = 0
  /\ navigationInProgress = FALSE
  /\ lastNavigationUrl = "null"
  /\ processingLock = FALSE
  /\ pendingAutomation \in OverlapRecords
  /\ now = Epoch
  /\ tab = [open |-> TRUE, url |-> UrlBlank, status |-> "complete", script |-> TRUE]
  /\ trig = [t \in Trigs |-> TrigIdle]
  /\ hc = [h \in Handlers |-> HandlerIdle]
  /\ pageWork = {}
  /\ log = << >>
  /\ count = [budget |-> MaxOverlapEvents, run |-> 0, caught |-> "none",
              timedOut |-> "none", timedOutAt |-> 0]
  /\ server = OverlapInstrNames

NextOverlap ==
  \/ count.budget = MaxOverlapEvents /\ TabLoad(UrlApp)
  \/ \E t \in Trigs : count.budget < MaxOverlapEvents /\ Trigger(t, 0)
  \/ \E t \in Trigs : TrigGotPending(t)
  \/ \E t \in Trigs, h \in Handlers : TrigResumeTabs(t, h)
  \/ \E t \in Trigs, o \in FetchErrors \cup OverlapInstrNames : TrigFetched(t, o)
  \/ \E t \in Trigs, h \in Handlers : ExecGotTabs(t, h)
  \/ \E t \in Trigs : ExecNavTimeout(t)
  \/ \E t \in Trigs, h \in Handlers : ExecSettle(t, h)
  \/ StepHandler
  \/ Messages
  \/ \E h \in Handlers : TabComplete(h)

SpecOverlap == InitOverlap /\ [][NextOverlap]_vars

\* ------------------------------------------------- the page: clickElement
\* resolve(value) of the promise of waitForElement, called by a callback that
\* leaves the wait as w and the document as d.  Only the first call settles
\* the promise; clickElement then goes on: with no element it tries the
\* loose search once and, with nothing found, throws 'not found'.
Resolve(w, value, d) ==
  IF w.resolved
  THEN /\ wait' = w
       /\ click' = click
  ELSE /\ wait' = [w EXCEPT !.resolved = TRUE, !.value = value, !.resolvedAt = clock]
       /\ click' = [click EXCEPT !.pc = "done",
                                 !.result = IF value # Null THEN value
                                            ELSE LooseSearch(d, click.step),
                                 !.end = clock]

\* A callback of the wait calls checkForElement on document d.
Rescan(w, d) ==
  [w EXCEPT !.element = checkForElement(d, click.step),
            !.rescans = IF w.resolved THEN @ + 1 ELSE @]

\* clickElement(elementInfo) up to its first suspension: the search by
\* text_content, the regular search and, with nothing found, the call of
\* waitForElement, which checks once and then sets the observer, the
\* interval and the final timer.
ClickElement(s) ==
  /\ click.pc = "idle"
  /\ LET found == IF s.academics /\ AcademicsSearch(dom) # Null
                  THEN AcademicsSearch(dom)
                  ELSE IF TextContentSearch(dom, s) # Null
                  THEN TextContentSearch(dom, s) ELSE SelectorSearch(dom)
         first == checkForElement(dom, s)
     IN  IF found # Null
         THEN /\ click' = [pc |-> "done", step |-> s, result |-> found,
                           start |-> clock, end |-> clock]
              /\ wait' = wait
         ELSE IF first # Null
         THEN /\ click' = [pc |-> "done", step |-> s, result |-> first,
                           start |-> clock, end |-> clock]
              /\ wait' = [WaitIdle EXCEPT !.startTime = clock, !.element = first,
                                          !.resolved = TRUE, !.value = first,
                                          !.resolvedAt = clock]
         ELSE /\ click' = [pc |-> "waiting", step |-> s, result |-> Null,
                           start |-> clock, end |-> 0]
              /\ wait' = [WaitIdle EXCEPT !.startTime = clock, !.lastCheckTime = clock,
                                          !.observer = TRUE, !.interval = TRUE,
                                          !.nextTick = clock + PollEvery,
                                          !.timer = TRUE]
  /\ pageHist' = [pageHist EXCEPT !.matchAtStart = AnyTierMatches(dom, s)]
  /\ UNCHANGED << orchVars, clock, dom, batch, act >>

\* Something of the wait is still set.
WaitAlive == wait.observer \/ wait.interval \/ wait.timer

\* The page changes its document to d; the MutationObserver, when it is
\* connected, runs its callback: throttle, deadline, re-check.
Mutate(d) ==
  /\ WaitAlive
  /\ pageHist.mutations > 0
  /\ dom' = d
  /\ pageHist' = [pageHist EXCEPT !.mutations = @ - 1]
  /\ IF ~wait.observer \/ clock - wait.lastCheckTime < CHECK_INTERVAL
     THEN UNCHANGED << wait, click >>
     ELSE LET w == [wait EXCEPT !.lastCheckTime = clock]
          IN  IF clock - wait.startTime > click.step.timeout
              THEN Resolve([w EXCEPT !.observer = FALSE], Null, d)
              ELSE IF checkForElement(d, click.step) # Null
              THEN Resolve([Rescan(w, d) EXCEPT !.observer = FALSE, !.interval = FALSE],
                           checkForElement(d, click.step), d)
              ELSE /\ wait' = Rescan(w, d)
                   /\ click' = click
  /\ UNCHANGED << orchVars, clock, batch, act >>

\* The page adds element e at the end of the document.
AddElement(e) ==
  /\ Len(dom) < MaxDom
  /\ \A i \in 1..Len(dom) : dom[i] # e
  /\ Mutate(Append(dom, e))

\* The page removes the i-th element of the document.
RemoveElement(i) ==
  /\ i <= Len(dom)
  /\ Mutate(SubSeq(dom, 1, i - 1) \o SubSeq(dom, i + 1, Len(dom)))

\* The callback of the mutant: the interval gives up at its first tick.
IntervalTickNoDeadline ==
  /\ wait.interval
  /\ clock >= wait.nextTick
  /\ Resolve([wait EXCEPT !.nextTick = @ + PollEvery, !.interval = FALSE,
                          !.observer = FALSE], Null, dom)
  /\ UNCHANGED << orchVars, clock, dom, pageHist, batch, act >>

\* The callback of setInterval(..., 100): deadline, re-check.
IntervalTick ==
  /\ wait.interval
  /\ clock >= wait.nextTick
  /\ LET w == [wait EXCEPT !.nextTick = @ + PollEvery]
     IN  IF clock - wait.startTime > click.step.timeout
         THEN Resolve([w EXCEPT !.interval = FALSE, !.observer = FALSE], Null, dom)
         ELSE IF checkForElement(dom, click.step) # Null
         THEN Resolve([Rescan(w, dom) EXCEPT !.interval = FALSE, !.observer = FALSE],
                      checkForElement(dom, click.step), dom)
         ELSE /\ wait' = Rescan(w, dom)
              /\ click' = click
  /\ UNCHANGED << orchVars, clock, dom, pageHist, batch, act >>

\* The callback of setTimeout(..., timeout): releases the observer and the
\* interval and resolves with null unless `element` holds an element.
FinalTimer ==
  /\ wait.timer
  /\ clock >= wait.startTime + click.step.timeout
  /\ LET w == [wait EXCEPT !.timer = FALSE, !.observer = FALSE, !.interval = FALSE]
     IN  IF wait.element = Null
         THEN Resolve(w, Null, dom)
         ELSE /\ wait' = w
              /\ click' = click
  /\ UNCHANGED << orchVars, clock, dom, pageHist, batch, act >>

\* 50 ms pass.  A timer fires at its time or later, up to MaxLate later.
Tick ==
  /\ WaitAlive
  /\ wait.timer => clock < wait.startTime + click.step.timeout + MaxLate
  /\ wait.interval => clock < wait.nextTick + MaxLate
  /\ clock' = clock + 1
  /\ UNCHANGED << orchVars, dom, click, wait, pageHist, batch, act >>

NextWait ==
  \/ \E s \in StepInfos : ClickElement(s)
  \/ \E e \in Elements : AddElement(e)
  \/ \E i \in 1..MaxDom : RemoveElement(i)
  \/ IntervalTick
  \/ FinalTimer
  \/ Tick

\* The scenario of one clickElement call: the orchestrator is idle, the
\* document is any document and changes while the call waits.
InitWait ==
  /\ isRunning = FALSE
  /\ completedSessionIds = << >>
  /\ lastRunTime = 0
  /\ navigationInProgress = FALSE
  /\ lastNavigationUrl = "null"
  /\ processingLock = FALSE
  /\ pendingAutomation = NoRecord
  /\ now = Epoch
  /\ tab = [open |-> TRUE, url |-> UrlApp, status |-> "complete", script |-> TRUE]
  /\ trig = [t \in Trigs |-> TrigIdle]
  /\ hc = [h \in Handlers |-> HandlerIdle]
  /\ pageWork = {}
  /\ log = << >>
  /\ count = [budget |-> 0, run |-> 0, caught |-> "none",
              timedOut |-> "none", timedOutAt |-> 0]
  /\ server = {}
  /\ clock = 0
  /\ dom \in Documents
  /\ click = ClickIdle
  /\ wait = WaitIdle
  /\ pageHist = [mutations |-> MaxMutations, matchAtStart |-> FALSE]
  /\ batch = BatchIdle
  /\ act = ActIdle

SpecWait == InitWait /\ [][NextWait]_vars

\* A scenario of clickElement on a document that does not change: the
\* document can hold the "Academic" elements and the step can be the
\* "Academics" step.
ResolveDocuments ==
  { d \in UNION { [1..n -> AllElements] : n \in 0..MaxResolveDom } :
      \A i, j \in 1..Len(d) : i # j => d[i] # d[j] }

InitResolve ==
  /\ isRunning = FALSE
  /\ completedSessionIds = << >>
  /\ lastRunTime = 0
  /\ navigationInProgress = FALSE
  /\ lastNavigationUrl = "null"
  /\ processingLock = FALSE
  /\ pendingAutomation = NoRecord
  /\ now = Epoch
  /\ tab = [open |-> TRUE, url |-> UrlApp, status |-> "complete", script |-> TRUE]
  /\ trig = [t \in Trigs |-> TrigIdle]
  /\ hc = [h \in Handlers |-> HandlerIdle]
  /\ pageWork = {}
  /\ log = << >>
  /\ count = [budget |-> 0, run |-> 0, caught |-> "none",
              timedOut |-> "none", timedOutAt |-> 0]
  /\ server = {}
  /\ clock = 0
  /\ dom \in ResolveDocuments
  /\ click = ClickIdle
  /\ wait = WaitIdle
  /\ pageHist = [mutations |-> 0, matchAtStart |-> FALSE]
  /\ batch = BatchIdle
  /\ act = ActIdle

NextResolve ==
  \/ \E s \in StepInfos \cup AcademicsStepInfos : ClickElement(s)
  \/ IntervalTick
  \/ FinalTimer
  \/ Tick

SpecResolve == InitResolve /\ [][NextResolve]_vars

\* -------------------------------------- the page: handleElementsToClick
\* An entry of elementsToClick: a step to click with its critical flag, or a
\* wait entry.
BatchElement(action, s, critical) ==
  [action |-> action, step |-> s, critical |-> critical]

BatchElements ==
  { BatchElement("click", StepInfo(text, FALSE), c)
      : text \in {<< >>, <<"a", "b">>}, c \in BOOLEAN }
  \cup { BatchElement("wait", StepInfo(<< >>, FALSE), FALSE) }

\* The lists the message can carry, the empty list included.
Batches == UNION { [1..n -> BatchElements] : n \in 0..MaxBatch }

\* The documents of the scenario: nothing to find, an option that holds the
\* text "ab", a button the loose search finds after the wait.
BatchDocuments ==
  { << >>,
    << Element(FALSE, "li", <<" ", "a", "b">>, FALSE) >>,
    << Element(FALSE, "button", <<"O", "K">>, FALSE) >> }

\* The entry the loop of handleElementsToClick is at.
CurrentElement == batch.elements[Len(batch.results) + 1]

\* results.push(...), then the loop goes on or the function returns the
\* results (AUTOMATION_COMPLETED is sent).
BatchPush(success) ==
  LET results == Append(batch.results,
                        [description |-> CurrentElement, success |-> success])
  IN  batch' = [batch EXCEPT
                  !.results = results,
                  !.pc = IF Len(results) = Len(batch.elements)
                         THEN "done" ELSE "running",
                  !.reported = IF Len(results) = Len(batch.elements)
                               THEN "AUTOMATION_COMPLETED" ELSE "none"]

\* The listener receives AUTOMATION_CLICK and calls handleElementsToClick,
\* which throws at once on an empty list (AUTOMATION_FAILED is sent).
HandleElementsToClick(elementsToClick) ==
  /\ batch.pc = "idle"
  /\ click.pc = "idle"
  /\ batch' = IF elementsToClick = << >>
              THEN [batch EXCEPT !.pc = "done", !.reported = "AUTOMATION_FAILED"]
              ELSE [batch EXCEPT !.pc = "running", !.elements = elementsToClick]
  /\ UNCHANGED << orchVars, clock, dom, click, wait, pageHist, act >>

\* The loop is at a wait entry: the timer is awaited and the wait recorded
\* as a success.
BatchWait ==
  /\ batch.pc = "running"
  /\ click.pc = "idle"
  /\ CurrentElement.action = "wait"
  /\ BatchPush(TRUE)
  /\ UNCHANGED << orchVars, clock, dom, click, wait, pageHist, act >>

\* The loop is at an entry to click: clickElement is called.
BatchClick ==
  /\ batch.pc = "running"
  /\ CurrentElement.action = "click"
  /\ ClickElement(CurrentElement.step)

\* handleElementsToClick that goes on after the failure of a critical
\* entry.
BatchResultIgnoresCritical ==
  /\ batch.pc = "running"
  /\ click.pc = "done"
  /\ BatchPush(click.result # Null)
  /\ click' = ClickIdle
  /\ UNCHANGED << orchVars, clock, dom, wait, pageHist, act >>

\* clickElement has returned its result or thrown 'not found': the result
\* is pushed; after a failure {success: false, error} is pushed and, for a
\* critical entry, 'Critical element click failed' is thrown
\* (AUTOMATION_FAILED is sent).
BatchResult ==
  /\ batch.pc = "running"
  /\ click.pc = "done"
  /\ IF click.result = Null /\ CurrentElement.critical
     THEN batch' = [batch EXCEPT
                      !.results = Append(@, [description |-> CurrentElement,
                                             success |-> FALSE]),
                      !.pc = "done",
                      !.reported = "AUTOMATION_FAILED"]
     ELSE BatchPush(click.result # Null)
  /\ click' = ClickIdle
  /\ UNCHANGED << orchVars, clock, dom, wait, pageHist, act >>

InitBatch ==
  /\ isRunning = FALSE
  /\ completedSessionIds = << >>
  /\ lastRunTime = 0
  /\ navigationInProgress = FALSE
  /\ lastNavigationUrl = "null"
  /\ processingLock = FALSE
  /\ pendingAutomation = NoRecord
  /\ now = Epoch
  /\ tab = [open |-> TRUE, url |-> UrlApp, status |-> "complete", script |-> TRUE]
  /\ trig = [t \in Trigs |-> TrigIdle]
  /\ hc = [h \in Handlers |-> HandlerIdle]
  /\ pageWork = {}
  /\ log = << >>
  /\ count = [budget |-> 0, run |-> 0, caught |-> "none",
              timedOut |-> "none", timedOutAt |-> 0]
  /\ server = {}
  /\ clock = 0
  /\ dom \in BatchDocuments
  /\ click = ClickIdle
  /\ wait = WaitIdle
  /\ pageHist = [mutations |-> 0, matchAtStart |-> FALSE]
  /\ batch = BatchIdle
  /\ act = ActIdle

NextBatch ==
  \/ \E elementsToClick \in Batches : HandleElementsToClick(elementsToClick)
  \/ BatchWait
  \/ BatchClick
  \/ BatchResult
  \/ IntervalTick
  \/ FinalTimer
  \/ Tick

SpecBatch == InitBatch /\ [][NextBatch]_vars

\* ---------------------------------- the page: clickElement, the activation
\* The record of the activation after the call `call` (click or dispatch)
\* made in block `block` of clickElement.  A call that raises delivers no
\* event.  A delivered click event runs the listeners: the once-listener of
\* the Workday branch and the listeners of the page can stop the default
\* action; otherwise a link with a target starts to navigate.
Called(a, call, block, raised) ==
  LET prevented == ~raised /\ (a.listener \/ a.pagePrevents)
  IN  [a EXCEPT
         !.calls = Append(@, [call |-> call, block |-> block,
                              raised |-> raised, prevented |-> prevented]),
         !.listener = IF raised THEN @ ELSE FALSE,
         !.navigated = \/ @
                       \/ /\ ~raised /\ ~prevented
                          /\ a.element.link # "none" /\ a.element.href # ""]

\* clickElement holds an element: it scrolls to it, pauses as the step asks
\* and comes to the click.  The pause changes nothing the activation reads.
\* p says whether a listener of the page stops the default action of a
\* click on the element.
ActStart(e, d, p) ==
  /\ act.pc = "idle"
  /\ act' = [ActIdle EXCEPT !.pc = IF d.academics THEN "academics" ELSE "activate",
                            !.element = e, !.description = d,
                            !.pagePrevents = p]
  /\ UNCHANGED << orchVars, clock, dom, click, wait, pageHist, batch >>

\* The branch of an "Academics" description: element.click(); an error is
\* logged and the general activation follows.
AcademicsClick ==
  /\ act.pc = "academics"
  /\ LET raised == ~act.element.hasClick
     IN  act' = [Called(act, "click", "academics", raised) EXCEPT
                   !.pc = IF raised THEN "activate" ELSE "academics_wait"]
  /\ UNCHANGED << orchVars, clock, dom, click, wait, pageHist, batch >>

\* The wait for a change of the URL ends, by the change or after 5 s:
\* success is returned.
AcademicsUrlWait ==
  /\ act.pc = "academics_wait"
  /\ act' = [act EXCEPT !.pc = "done", !.result = "success"]
  /\ UNCHANGED << orchVars, clock, dom, click, wait, pageHist, batch >>

\* The Workday branch of a link: the once-listener that stops the default
\* action is added, element.click() is called, WORKDAY_CARD_CLICKED{href} is
\* sent and success returned.
WorkdayClick ==
  /\ act.pc = "activate"
  /\ act.element.link # "none"
  /\ act.description.workday
  /\ LET raised == ~act.element.hasClick
         a      == Called([act EXCEPT !.listener = TRUE], "click", "activate", raised)
     IN  act' = IF raised
                THEN [a EXCEPT !.pc = "fallback"]
                ELSE [a EXCEPT !.pc = "done", !.result = "success",
                               !.message = [sent |-> TRUE,
                                            href |-> act.element.href]]
  /\ UNCHANGED << orchVars, clock, dom, click, wait, pageHist, batch >>

\* Any other link: element.dispatchEvent(clickEvent) with a cancelable click
\* event; when no listener has stopped the default action element.click()
\* follows.
LinkDispatch(raises) ==
  /\ act.pc = "activate"
  /\ act.element.link # "none"
  /\ ~act.description.workday
  /\ LET a == Called(act, "dispatch", "activate", raises)
     IN  act' = IF raises
                THEN [a EXCEPT !.pc = "fallback"]
                ELSE IF a.calls[Len(a.calls)].prevented
                THEN [a EXCEPT !.pc = "done", !.result = "success"]
                ELSE [a EXCEPT !.pc = "link_click"]
  /\ UNCHANGED << orchVars, clock, dom, click, wait, pageHist, batch >>

\* element.click() of the general activation: on an element that is no
\* link, or on a link after the dispatched event.
NativeClick ==
  /\ \/ act.pc = "link_click"
     \/ act.pc = "activate" /\ act.element.link = "none"
  /\ LET raised == ~act.element.hasClick
         a      == Called(act, "click", "activate", raised)
     IN  act' = IF raised
                THEN [a EXCEPT !.pc = "fallback"]
                ELSE [a EXCEPT !.pc = "done", !.result = "success"]
  /\ UNCHANGED << orchVars, clock, dom, click, wait, pageHist, batch >>

\* The catch block that throws the error of the dispatch.
FallbackDispatchThrowsOwn(raises) ==
  /\ act.pc = "fallback"
  /\ LET a == Called(act, "dispatch", "fallback", raises)
     IN  act' = IF raises
                THEN [a EXCEPT !.pc = "done", !.result = "failed",
                               !.error = Len(a.calls)]
                ELSE [a EXCEPT !.pc = "done", !.result = "success"]
  /\ UNCHANGED << orchVars, clock, dom, click, wait, pageHist, batch >>

\* catch (clickError): one dispatchEvent of a synthesized click event; when
\* it raises as well, clickError, the error caught, is thrown.
FallbackDispatch(raises) ==
  /\ act.pc = "fallback"
  /\ LET a == Called(act, "dispatch", "fallback", raises)
     IN  act' = IF raises
                THEN [a EXCEPT !.pc = "done", !.result = "failed",
                               !.error = Len(act.calls)]
                ELSE [a EXCEPT !.pc = "done", !.result = "success"]
  /\ UNCHANGED << orchVars, clock, dom, click, wait, pageHist, batch >>

\* The scenario of one activation: any element, description and page.
InitActivate ==
  /\ isRunning = FALSE
  /\ completedSessionIds = << >>
  /\ lastRunTime = 0
  /\ navigationInProgress = FALSE
  /\ lastNavigationUrl = "null"
  /\ processingLock = FALSE
  /\ pendingAutomation = NoRecord
  /\ now = Epoch
  /\ tab = [open |-> TRUE, url |-> UrlHome, status |-> "complete", script |-> TRUE]
  /\ trig = [t \in Trigs |-> TrigIdle]
  /\ hc = [h \in Handlers |-> HandlerIdle]
  /\ pageWork = {}
  /\ log = << >>
  /\ count = [budget |-> 0, run |-> 0, caught |-> "none",
              timedOut |-> "none", timedOutAt |-> 0]
  /\ server = {}
  /\ PageIdle

NextActivate ==
  \/ \E e \in Targets, d \in Descriptions, p \in BOOLEAN : ActStart(e, d, p)
  \/ AcademicsClick
  \/ AcademicsUrlWait
  \/ WorkdayClick
  \/ \E raises \in BOOLEAN : LinkDispatch(raises)
  \/ NativeClick
  \/ \E raises \in BOOLEAN : FallbackDispatch(raises)

SpecActivate == InitActivate /\ [][NextActivate]_vars

\* ================================================================ claims
\* Views of the history.
Dispatches == {i \in 1..Len(log) : log[i].ev = "dispatch"}
Results    == {i \in 1..Len(log) : log[i].ev = "result"}
Fetches    == {i \in 1..Len(log) : log[i].ev = "fetch"}

SameRun(i, j) ==
  log[i].run = log[j].run /\ log[i].instruction = log[j].instruction

SessionOf(e) == Instr(e.instruction).session_id

\* No callback is pending: every invocation has returned, no timer is set,
\* the page has loaded and the content script has nothing to report.
Quiescent ==
  /\ \A t \in Trigs : trig[t].pc = "idle"
  /\ \A h \in Handlers : hc[h].pc = "idle"
  /\ pageWork = {}
  /\ tab.open => tab.status = "complete" /\ tab.script

\* No step has been sent from a record more than 5 minutes old (what such a
\* record leads to is the matter of C5 alone).
FreshOnly == \A j \in Dispatches : ~log[j].stale

\* A step that begins the executeAutomation of a new run.
RunStart == \E t \in Trigs : trig[t].pc = "e_got_tabs" /\ trig'[t].pc # "e_got_tabs"

\* The step appends the history of a fetched instruction.
FetchStep ==
  /\ Len(log') = Len(log) + 1
  /\ log'[Len(log')].ev = "fetch"

\* C1: within one run the steps are dispatched in strictly increasing order
\* of their index, so each index is dispatched at most once, whatever
\* page-ready signals and triggers arrive.
C1_DispatchedOnceInOrder ==
  FreshOnly =>
    \A i \in Dispatches, j \in Dispatches :
       i < j /\ SameRun(i, j) => log[i].index < log[j].index

\* C2: at most one step is in flight: the message for step k+1 is never
\* sent while the content script has not yet reported the result of step k.
C2_OneStepInFlight ==
  FreshOnly =>
    \A j \in Dispatches : \A n \in log[j].outstanding :
       ~(SameRun(n, j) /\ log[j].index = log[n].index + 1)

\* C3: after the failure of a critical step (AUTOMATION_FAILED) no step of a
\* higher index is dispatched and the pending record is removed.
C3_CriticalFailureAborts ==
  FreshOnly =>
  \A i \in Results :
     log[i].type = "AUTOMATION_FAILED" =>
       /\ \A j \in Dispatches :
            j > i /\ SameRun(i, j) => log[j].index <= log[i].index
       /\ i = Len(log) => ~pendingAutomation.present

\* C4: the failure of a non-critical step does not end the run: once every
\* callback has run, each later step has been dispatched and the run is
\* Completed (the record removed, isRunning false).
C4_NonCriticalFailureContinues ==
  Quiescent /\ FreshOnly =>
    \A i \in Results :
       ( /\ log[i].type = "AUTOMATION_COMPLETED"
         /\ ~log[i].ok
         /\ log[i].index + 1 < NumSteps(log[i].instruction) )
       => /\ \E j \in Dispatches :
               SameRun(i, j) /\ log[j].index = log[i].index + 1
          /\ ~pendingAutomation.present
          /\ ~isRunning

\* C5: a step is never dispatched from a pending record whose lastUpdated is
\* more than 5 minutes old, whichever path has observed the record.
C5_StaleNeverResumed ==
  \A j \in Dispatches : ~log[j].stale

\* C6: a poll that observes a record more than 5 minutes old removes it from
\* the store.
C6_PollRemovesStale ==
  [][ \A t \in Trigs :
        ( /\ trig[t].pc = "p_got_pending"
          /\ trig[t].instruction # "none"
          /\ IsStale(trig[t])
          /\ trig'[t].pc # "p_got_pending" )
        => ~pendingAutomation'.present ]_vars

C8_ResumeTakesPriority ==
  [][ \A t \in Trigs :
        /\ ( /\ trig[t].pc = "t_got_pending"
             /\ trig[t].instruction # "none"
             /\ trig'[t] # trig[t] )
           => /\ trig'[t].pc = "t_resume_tabs"
              /\ trig'[t].instruction = trig[t].instruction
              /\ log' = log
              /\ pendingAutomation' = pendingAutomation
        /\ ( trig[t].pc = "t_resume_tabs" /\ trig'[t] # trig[t] )
           => /\ trig'[t].pc \in {"t_resume_wait", "idle"}
              /\ trig'[t].pc = "t_resume_wait" =>
                   \E h \in Handlers :
                      /\ hc[h].pc = "idle"
                      /\ hc'[h].parent = t
                      /\ hc'[h].instruction = trig[t].instruction
              /\ pendingAutomation' = pendingAutomation
              /\ Fetches = {i \in 1..Len(log') : log'[i].ev = "fetch"}
        /\ ( trig[t].pc = "t_resume_wait" /\ trig'[t] # trig[t] )
           => trig'[t].pc = "idle"
        /\ \A h \in Handlers :
             ( /\ trig[t].pc = "t_resume_wait"
               /\ hc[h].parent = t
               /\ hc'[h] # hc[h]
               /\ pendingAutomation' # pendingAutomation
               /\ pendingAutomation'.present )
             => pendingAutomation'.instruction = trig[t].instruction ]_vars

\* A resuming invocation awaits handleCurrentStep, which has sent the step of
\* the record; nothing has been fetched.
C8_Witness ==
  \E t \in Trigs, h \in Handlers :
     /\ trig[t].pc = "t_resume_wait"
     /\ hc[h].parent = t
     /\ hc[h].pc = "click_wait"
     /\ hc[h].instruction = trig[t].instruction
     /\ Fetches = {}
     /\ Dispatches # {}

\* C9: within a run the persisted currentStepIndex never decreases and stays
\* within 0..steps.length, however the invocations of handleCurrentStep
\* interleave.
C9_IndexNeverDecreases ==
  [][ ( /\ pendingAutomation.present
        /\ pendingAutomation'.present
        /\ pendingAutomation'.instruction = pendingAutomation.instruction
        /\ ~RunStart
        /\ FreshOnly' )
      => /\ pendingAutomation'.currentStepIndex >= pendingAutomation.currentStepIndex
         /\ pendingAutomation'.currentStepIndex \in
              0..NumSteps(pendingAutomation'.instruction) ]_vars

\* C10: the persisted executedSteps holds no index twice, and every step
\* sent to the page whose index is saved with the message (a click step
\* that is not the last) is in it as long as the record of the run exists.
C10_ExecutedStepsExact ==
  pendingAutomation.present /\ FreshOnly =>
    LET ex == pendingAutomation.executedSteps IN
    /\ \A a \in 1..Len(ex), b \in 1..Len(ex) : a # b => ex[a] # ex[b]
    /\ \A j \in Dispatches :
         ( /\ log[j].instruction = pendingAutomation.instruction
           /\ log[j].run = count.run
           /\ log[j].type = "AUTOMATION_CLICK"
           /\ log[j].index + 1 < NumSteps(log[j].instruction) )
         => Includes(ex, log[j].index)

\* The step ends a run of invocation t by one of its abort paths: the fetch
\* fails or hands out an unsupported action, the navigation times out, or
\* the message to the page cannot be sent.
AbortStep(t) ==
  /\ trig'[t].pc = "idle"
  /\ \A u \in Trigs \ {t} : trig[u].pc = "idle"
  /\ \/ /\ trig[t].pc = "t_fetch"
        /\ log' = log \/ log'[Len(log')].type = "unsupported"
     \/ trig[t].pc = "e_wait_nav"
     \/ /\ trig[t].pc \in {"e_skip_wait", "e_step_wait"}
        /\ \E h \in Handlers : hc[h].parent = t /\ hc[h].response = "lastError"

\* The step receives the failure of a critical step.
CriticalFailureStep ==
  /\ Len(log') = Len(log) + 1
  /\ log'[Len(log')].type = "AUTOMATION_FAILED"
  /\ \A u \in Trigs : trig[u].pc = "idle"

\* C11: every abort path of a run (fetch error, unsupported action,
\* navigation timeout, message-send error, critical-step failure) ends with
\* isRunning, processingLock and navigationInProgress false and with no
\* pendingAutomation record in the store.
C11_AbortLeavesIdle ==
  [][ (CriticalFailureStep \/ \E t \in Trigs : AbortStep(t))
      => /\ ~isRunning'
         /\ ~processingLock'
         /\ ~navigationInProgress'
         /\ ~pendingAutomation'.present ]_vars

\* Invocation t decides in this step to fetch a new instruction.
FetchDecision(t) == trig[t].pc # "t_fetch" /\ trig'[t].pc = "t_fetch"

\* C12: a fetch for a new instruction is issued only when isRunning,
\* processingLock and navigationInProgress are all clear at the moment of
\* the decision, for explicit triggers as for polling ticks (a tick holds
\* the processing lock itself, so for a tick the lock is not required to be
\* clear).
C12_FetchOnlyWhenAllClear ==
  [][ \A t \in Trigs :
        FetchDecision(t)
        => /\ ~isRunning
           /\ ~navigationInProgress
           /\ trig[t].viaPoll \/ ~processingLock ]_vars

\* Invocation t of triggerAutomation is past the isRunning check and has
\* taken a branch: it is resuming a record, fetching or executing.
PastRunCheck(t) ==
  trig[t].pc \in {"t_resume_tabs", "t_resume_wait", "t_fetch", "e_got_tabs",
                  "e_wait_nav", "e_settle", "e_skip_wait", "e_step_wait"}

\* C13: run-lock mutual exclusion: for any interleaving of two or more
\* triggerAutomation invocations at most one of them is past the isRunning
\* check (resuming, fetching or executing) at any time.
C13_RunLockMutualExclusion ==
  Cardinality({t \in Trigs : PastRunCheck(t)}) <= 1

\* The history begins with the fetch of a 2-step multi_step_navigation
\* instruction that was handed to executeAutomation (so the store was empty
\* and the run-lock free when the invocation started).
TwoStepRun ==
  /\ Len(log) > 0
  /\ log[1].ev = "fetch" /\ log[1].type = "executed"
  /\ Instr(log[1].instruction).action = "multi_step_navigation"
  /\ NumSteps(log[1].instruction) = 2

\* C14: in the run of a 2-step multi_step_navigation instruction started
\* from a page that is not at target_url, index 1 is persisted only after
\* the success of step 0 has been received (navigate, settle delay, dispatch
\* of step 0, success of step 0, persist index 1, dispatch of step 1, ...).
C14_IndexOneAfterSuccessOfStepZero ==
  [][ ( /\ TwoStepRun
        /\ pendingAutomation'.present
        /\ pendingAutomation'.currentStepIndex = 1
        /\ pendingAutomation.currentStepIndex # 1 )
      => \E i \in Results : log[i].index = 0 /\ log[i].ok ]_vars

\* A callback of the wait re-scans the document in this step (the interval
\* has ticked, or the observer has passed its throttle, before the
\* deadline), and the promise has not been settled before.
Polls ==
  /\ click.pc = "waiting"
  /\ ~wait.resolved
  /\ wait'.nextTick # wait.nextTick \/ wait'.lastCheckTime # wait.lastCheckTime
  /\ clock - wait.startTime <= click.step.timeout

\* C15: during the bounded wait every tier (selectors, text_content
\* filtering, loose description-text search, heuristics) is re-evaluated on
\* every poll: when no tier matched as the wait started and an element has
\* become matchable by some tier since, the poll that runs on that document
\* resolves the wait with an element.
C15_EveryTierPolled ==
  [][ ( /\ Polls
        /\ ~pageHist.matchAtStart
        /\ AnyTierMatches(dom', click.step) )
      => wait'.resolved /\ wait'.value # Null ]_vars

\* C16: not-found is reported only after the full timeout: waitForElement
\* never resolves with null, and clickElement never throws 'not found',
\* while less than the timeout of the step has passed since the wait
\* started.
C16_NotFoundOnlyAfterTimeout ==
  /\ (wait.resolved /\ wait.value = Null)
       => wait.resolvedAt - wait.startTime >= click.step.timeout
  /\ (click.pc = "done" /\ click.result = Null)
       => click.end - wait.startTime >= click.step.timeout

\* clickElement has thrown 'not found' after a wait that resolved with null
\* on a document that was changed during the wait.
C16_Witness ==
  /\ click.pc = "done" /\ click.result = Null
  /\ wait.resolved /\ wait.value = Null
  /\ pageHist.mutations < MaxMutations

\* The elements of the document whose visible text holds the text_content
\* of step s.
HoldingText(d, s) ==
  {i \in 1..Len(d) : StrIncludes(Trim(d[i].text), s.text_content)}

\* C17: for a step whose selectors match no element but whose text_content
\* is contained in the visible text of exactly one element of the page,
\* clickElement resolves to that element before the deadline, whatever the
\* kind of the element and the length of its text (the document is not
\* changed meanwhile).
C17_TextContentResolves ==
  ( /\ click.pc = "done"
    /\ click.step.text_content # << >>
    /\ ~click.step.dialogSel
    /\ pageHist.mutations = MaxMutations
    /\ SelectorSearch(dom) = Null
    /\ Cardinality(HoldingText(dom, click.step)) = 1 )
  => /\ \E i \in HoldingText(dom, click.step) : click.result = dom[i]
     /\ click.end - click.start < click.step.timeout

\* C18: on every exit path of waitForElement (found at once, found from a
\* mutation callback or from the interval, deadline reached in the mutation
\* callback, in the interval or in the final timer) the MutationObserver is
\* disconnected and the polling interval cleared at the moment the wait
\* resolves, and no re-scan runs after the resolution.
C18_ReleasedWhenResolved ==
  [][ /\ (~wait.resolved /\ wait'.resolved) => ~wait'.observer /\ ~wait'.interval
      /\ wait'.rescans = 0 ]_vars

\* The results the orchestrator has received for dispatch n.
ResultsOf(n) == {i \in Results : log[i].n = n}

\* C19: the outcome of every request the page has received is reported
\* exactly once: for an AUTOMATION_CLICK one of AUTOMATION_COMPLETED and
\* AUTOMATION_FAILED, for a VERIFY_DIALOG one of DIALOG_VERIFIED and
\* DIALOG_VERIFICATION_FAILED.  Never more than one, and exactly one once
\* nothing is pending any more.
C19_OutcomeReportedOnce ==
  \A n \in Dispatches :
    log[n].delivered
    => /\ Cardinality(ResultsOf(n)) <= 1
       /\ \A i \in ResultsOf(n) :
            log[i].type \in IF log[n].type = "VERIFY_DIALOG"
                            THEN {"DIALOG_VERIFIED", "DIALOG_VERIFICATION_FAILED"}
                            ELSE {"AUTOMATION_COMPLETED", "AUTOMATION_FAILED"}
       /\ Quiescent => Cardinality(ResultsOf(n)) = 1

\* The fetch of invocation t fails in this step: the invocation leaves the
\* fetch and returns, and no instruction enters the history.
FetchFails(t) ==
  /\ trig[t].pc = "t_fetch"
  /\ trig'[t].pc = "idle"
  /\ log' = log

\* C20: a failed fetch (non-2xx status, malformed body, missing
\* instruction) returns the orchestrator to Idle: isRunning is false
\* afterwards, the tab is not navigated, the store is not written, no step
\* is dispatched, no session id is added to the dedup set and the invocation
\* is over, so it issues no second fetch.
C20_FailedFetchReturnsToIdle ==
  [][ \A t \in Trigs :
        FetchFails(t)
        => /\ ~isRunning'
           /\ tab' = tab
           /\ navigationInProgress' = navigationInProgress
           /\ lastNavigationUrl' = lastNavigationUrl
           /\ pendingAutomation' = pendingAutomation
           /\ hc' = hc /\ pageWork' = pageWork
           /\ completedSessionIds' = completedSessionIds
           /\ trig'[t] = TrigIdle ]_vars

\* A fetch has failed: the run-lock was taken for a fetch (lastRunTime is
\* set), no instruction has been received and every invocation has returned.
C20_Witness ==
  /\ lastRunTime # 0
  /\ Fetches = {}
  /\ \A t \in Trigs : trig[t].pc = "idle"
  /\ ~isRunning

\* C21: a fetch response without an instruction is a valid nothing-to-do
\* outcome and not an error: triggerAutomation raises and catches no
\* exception for it.
C21_NoInstructionIsNoError ==
  count.caught # "no_instruction"

\* C22: the session dedup set is bounded: completedSessionIds never holds
\* more than 20 ids at the end of a step, and an insertion into a full set
\* removes the id inserted earliest and nothing else.
C22_SessionSetBounded ==
  /\ [](Len(completedSessionIds) <= MaxSessionIds)
  /\ [][ (/\ Len(completedSessionIds) = MaxSessionIds
          /\ completedSessionIds' # completedSessionIds)
         => /\ Len(completedSessionIds') = MaxSessionIds
            /\ SubSeq(completedSessionIds', 1, MaxSessionIds - 1)
                 = Tail(completedSessionIds)
            /\ ~Includes(completedSessionIds,
                         completedSessionIds'[MaxSessionIds]) ]_vars

\* Two new ids have gone into a set that was full: the two oldest are gone.
C22_Witness ==
  /\ Len(completedSessionIds) = MaxSessionIds
  /\ completedSessionIds[1] = PastSessions[3]
  /\ completedSessionIds[MaxSessionIds] \in {"s1", "s2"}
  /\ completedSessionIds[MaxSessionIds - 1] \in {"s1", "s2"}

\* C23: idempotent resume.  handleCurrentStep skips a step whose index the
\* record lists as executed.  Every record the orchestrator writes lists
\* only the steps before its index, so the invocations of the scenarios never
\* read a record of that kind: the index a handler works on is not among the
\* executed steps it has read.
C23_IndexNeverAmongExecuted ==
  /\ pendingAutomation.present
       => ~Includes(pendingAutomation.executedSteps,
                    pendingAutomation.currentStepIndex)
  /\ \A h \in Handlers :
       hc[h].pc = "got_pending"
         => ~Includes(hc[h].executedSteps, hc[h].currentStepIndex)

\* C24: the persisted step index is advanced only on success: while the
\* record of a run holds an index above k, a successful result for the
\* dispatch of step k of that run has been received.  A step that has been
\* dispatched and whose result is a failure, or has not arrived, leaves the
\* persisted index at k.
C24_IndexAdvancedOnlyOnSuccess ==
  FreshOnly =>
    \A j \in Dispatches :
      ( /\ pendingAutomation.present
        /\ pendingAutomation.instruction = log[j].instruction
        /\ pendingAutomation.currentStepIndex > log[j].index )
      => \E i \in ResultsOf(j) : log[i].ok

\* The 30 s timer of executeAutomation fires in this step.
NavTimeoutStep(t) == trig[t].pc = "e_wait_nav" /\ trig'[t].pc = "idle"

\* C25: navigation timeout.  When the tab has not reported 'complete' within
\* 30 s of tabs.update the run is aborted as failed: the invocation returns
\* (its onUpdated listener removed) with navigationInProgress and isRunning
\* false, and no step of the instruction is dispatched afterwards, unless
\* the instruction has been fetched again.
C25_NavigationTimeoutAborts ==
  /\ [][ \A t \in Trigs :
           NavTimeoutStep(t)
           => /\ now' - trig[t].navStart >= PageLoadTimeout
              /\ ~navigationInProgress'
              /\ ~isRunning' ]_vars
  /\ [][ ( /\ Len(log') = Len(log) + 1
           /\ log'[Len(log')].ev = "dispatch" )
         => log'[Len(log')].instruction # count.timedOut ]_vars

\* The cool-down an invocation of triggerAutomation is subject to: that of
\* the polling tick that called it, or that of an explicit trigger.
CooldownOf(t) == IF trig[t].viaPoll THEN PollCooldown ELSE ExplicitCooldown

\* C26: cool-down.  A polling trigger issues no fetch while less than 30 s
\* have passed since the last run, an explicit trigger none while less than
\* 5 s have passed, and the window is counted from the completion of the
\* last run: from lastRunTime at the least, and from the moment the last run
\* was aborted by the navigation timeout when it ended that way.
C26_CooldownFromCompletion ==
  [][ \A t \in Trigs :
        FetchDecision(t)
        => /\ now - lastRunTime >= CooldownOf(t)
           /\ count.timedOut # "none"
                => now - count.timedOutAt >= CooldownOf(t) ]_vars

\* executeAutomation of invocation t finds, after tabs.query, the tab at the
\* target of its instruction, or the target equal to lastNavigationUrl less
\* than 10 s after lastRunTime.
AtTarget(t) ==
  /\ trig[t].pc = "e_got_tabs"
  /\ tab.open
  /\ LET target == Instr(trig[t].instruction).target_url IN
       \/ tab.url = target
       \/ lastNavigationUrl = target /\ now - lastRunTime < RecentNavWindow

\* handleCurrentStep has been entered for the instruction of invocation t,
\* which awaits it, and works on the first step.
AtFirstStep(t, h) ==
  /\ hc[h].parent = t
  /\ hc[h].instruction = trig[t].instruction
  /\ hc[h].pc \in {"got_pending", "click_wait"}
  /\ hc[h].currentStepIndex = 0

\* C27: navigation skip.  When the tab is already at target_url (or the
\* target is the last navigation target and the run started less than 10 s
\* ago) executeAutomation issues no tabs.update, leaves navigationInProgress
\* and lastNavigationUrl as they are and enters handleCurrentStep at once,
\* for the first step.
C27_NavigationSkipped ==
  [][ \A t \in Trigs :
        AtTarget(t) /\ trig'[t] # trig[t]
        => /\ tab' = tab
           /\ navigationInProgress' = navigationInProgress
           /\ lastNavigationUrl' = lastNavigationUrl
           /\ trig'[t].pc = "e_skip_wait"
           /\ \E h \in Handlers : hc[h].pc = "idle" /\ AtFirstStep(t, h)' ]_vars

\* A run has skipped the navigation and its first step is on its way.
C27_Witness ==
  \E t \in Trigs, h \in Handlers :
    trig[t].pc = "e_skip_wait" /\ AtFirstStep(t, h)

\* A handler sends the message of a step in this step of the model.
SendsStep(h) ==
  /\ hc[h].pc = "got_pending"
  /\ hc'[h].pc \in {"click_wait", "verify_wait"}

FirstFound(results) ==
  IF \A i \in 1..Len(results) : results[i] = Null THEN Null
  ELSE results[CHOOSE i \in 1..Len(results) :
                 /\ results[i] # Null
                 /\ \A j \in 1..(i - 1) : results[j] = Null]

\* C29: tier priority in clickElement.  The element used is the one found by
\* the highest tier that has a match, in the order: the selectors (exact,
\* then fallback, in the given order), the text_content filtering, the loose
\* description-text search, and the "Academics" heuristic only when all
\* other tiers found nothing.  (Steps without a dialog selector, on a
\* document that does not change.)
C29_TierPriority ==
  (click.pc = "done" /\ ~click.step.dialogSel /\ pageHist.mutations = 0)
  => click.result =
       FirstFound(<< SelectorSearch(dom),
                     TextContentSearch(dom, click.step),
                     LooseSearch(dom, click.step),
                     IF click.step.academics THEN AcademicsSearch(dom) ELSE Null >>)

\* C30: within one AUTOMATION_CLICK batch a failing element with
\* critical = true stops the batch: no later element is attempted and the
\* batch is reported as AUTOMATION_FAILED.  A failing element without
\* critical is recorded as {success: false} in its list position, every
\* later element is still attempted, and the batch is reported as
\* AUTOMATION_COMPLETED with one result per element in input order.
C30_BatchOutcome ==
  /\ [](/\ Len(batch.results) <= Len(batch.elements)
        /\ \A k \in 1..Len(batch.results) :
             /\ batch.results[k].description = batch.elements[k]
             /\ (~batch.results[k].success /\ batch.elements[k].critical)
                  => /\ k = Len(batch.results)
                     /\ batch.reported = "AUTOMATION_FAILED"
                     /\ click.pc = "idle"
        /\ batch.reported = "AUTOMATION_COMPLETED"
             => Len(batch.results) = Len(batch.elements)
        /\ (batch.reported = "AUTOMATION_FAILED" /\ batch.elements # << >>)
             => /\ ~batch.results[Len(batch.results)].success
                /\ batch.elements[Len(batch.results)].critical
        /\ (batch.pc = "done") = (batch.reported # "none"))
  /\ [][ Len(batch'.results) = Len(batch.results) + 1
         => batch'.results[Len(batch'.results)].success
              = IF CurrentElement.action = "wait" THEN TRUE
                ELSE click.pc = "done" /\ click.result # Null ]_vars

\* A batch of two has been reported as completed: its first element, not
\* critical, failed and its second was still clicked.
C30_Witness ==
  /\ batch.reported = "AUTOMATION_COMPLETED"
  /\ Len(batch.results) = 2
  /\ ~batch.results[1].success
  /\ batch.elements[2].action = "click" /\ batch.results[2].success

\* A batch of two has been reported as failed after its first element.
C30_WitnessCritical ==
  /\ batch.reported = "AUTOMATION_FAILED"
  /\ Len(batch.elements) = 2
  /\ Len(batch.results) = 1

\* The run-lock is set and nothing is left that clears it: no invocation of
\* triggerAutomation, pollForAutomation or handleCurrentStep is alive, no
\* resume timer is set, the content script has no outcome to report and the
\* store holds no record a page-ready signal could resume.
LockStuck ==
  /\ isRunning
  /\ \A t \in Trigs : trig[t].pc = "idle"
  /\ \A h \in Handlers : hc[h].pc = "idle"
  /\ pageWork = {}
  /\ ~pendingAutomation.present

\* Such a state is left by no step: a trigger or a poll returns at its test
\* of the run-lock and a page load finds no record.
C33_StuckForEver == [][LockStuck => LockStuck']_vars

\* C33: the run-lock is always released: after every triggerAutomation
\* invocation that has set isRunning, isRunning becomes false again on every
\* path, the path on which a new tab is created and the path on which a
\* step that is not the last one was dispatched included.  Checked in its
\* finite form: the program never gets to a state in which the lock is set
\* and can never be cleared again.
C33_RunLockReleased == ~LockStuck

\* The store holds a record and nothing is left that works on it: the page
\* has loaded and its content script has started and has nothing to report,
\* no handleCurrentStep is alive, no resume timer is set, and the only
\* invocations alive are polls that have read the record.
RecordIdle ==
  /\ pendingAutomation.present
  /\ \A t \in Trigs : \/ trig[t].pc = "idle"
                      \/ trig[t].pc = "p_got_pending" /\ trig[t].instruction # "none"
  /\ \A h \in Handlers : hc[h].pc = "idle"
  /\ pageWork = {}
  /\ tab.open /\ tab.status = "complete" /\ tab.script

\* The step is an explicit trigger that gets past the run-lock, or the
\* start of a page load.
TriggerOrLoad ==
  \/ \E t \in Trigs : /\ trig[t].pc = "idle"
                      /\ trig'[t].pc = "t_got_pending" /\ ~trig'[t].viaPoll
  \/ tab.status # "loading" /\ tab'.status = "loading"

\* With polls alone such a record is kept as it is, however old it gets:
\* pollForAutomation returns when it finds a record.
C34_KeptUnderPolling ==
  [][ (RecordIdle /\ ~TriggerOrLoad)
        => (RecordIdle' /\ pendingAutomation' = pendingAutomation) ]_vars

\* C34: every multi-step run terminates: once a pendingAutomation record has
\* been written it is removed in the end (completion, abort or expiry) under
\* fair polling alone, also when the clicks of the run cause no further
\* page load and no explicit trigger arrives.  Checked in its finite form:
\* the run, with no navigation timeout behind it, never gets to a state in
\* which the step before the index of the record has been clicked with
\* success on the page the tab still shows and polling alone will never
\* remove the record.
C34_RunTerminates ==
  ~(/\ RecordIdle
    /\ count.timedOut = "none"
    /\ \E i \in Results :
         /\ log[i].instruction = pendingAutomation.instruction
         /\ log[i].index + 1 = pendingAutomation.currentStepIndex
         /\ log[i].ok
         /\ log[i].run = count.run /\ count.run > 0)

\* The history holds the result of every step of instruction `name`.
AllStepsReported(name) ==
  \A idx \in 0..(NumSteps(name) - 1) :
    \E i \in Results : log[i].instruction = name /\ log[i].index = idx

\* C36: a session_id is in completedSessionIds only if the run of its
\* instruction has completed: all steps of the instruction were dispatched
\* and their results received before the id was added; an instruction whose
\* run has only opened a new tab, or only dispatched its first step, is not
\* yet marked as completed.  Checked on the step that adds an id: it is the
\* id of the instruction of the invocation that returns, and the result of
\* every step of that instruction is in the history.
C36_CompletedOnlyAfterRun ==
  [][ completedSessionIds' # completedSessionIds
        => \E t \in Trigs :
             /\ trig[t].pc # "idle" /\ trig'[t].pc = "idle"
             /\ trig[t].instruction # "none"
             /\ Instr(trig[t].instruction).session_id
                  = completedSessionIds'[Len(completedSessionIds')]
             /\ AllStepsReported(trig[t].instruction) ]_vars

\* The same for the runs that have dispatched a step: the new-tab path is
\* left aside.
C36_CompletedAfterDispatch ==
  [][ completedSessionIds' # completedSessionIds
        => \E t \in Trigs :
             /\ trig[t].pc # "idle" /\ trig'[t].pc = "idle"
             /\ trig[t].instruction # "none"
             /\ (\E i \in Dispatches : log[i].instruction = trig[t].instruction)
                  => AllStepsReported(trig[t].instruction) ]_vars

\* The invocations of pollForAutomation that are past their test of the
\* locks and have not returned.
PollBodies == {t \in Trigs : trig[t].pc # "idle" /\ trig[t].viaPoll}

\* C37: the processing lock is a mutex around the poll: processingLock is
\* tested and set by pollForAutomation with no suspension in between, so at
\* most one pollForAutomation body is active at any time, and the lock is
\* false whenever none is active (it is released on each early return, on
\* normal completion and when an awaited call throws).
C37_ProcessingLockMutex ==
  /\ Cardinality(PollBodies) <= 1
  /\ processingLock <=> PollBodies # {}

\* A poll is inside triggerAutomation, waiting for its navigation, with the
\* lock held, and every outside event of the scenario has arrived.
C37_Witness ==
  /\ \E t \in PollBodies : trig[t].pc = "e_wait_nav"
  /\ processingLock
  /\ count.budget = 0

\* Invocation t is in executeAutomation, has sent the tab to the target of
\* a multi_step_navigation instruction and waits for the page.
MultiStepNavigating(t) ==
  /\ trig[t].pc = "e_wait_nav"
  /\ Instr(trig[t].instruction).action = "multi_step_navigation"

\* The step of executeAutomation that starts the navigation of a multi-step
\* run leaves the tab loading the target and the store holding the record
\* of the instruction at index 0: the record is written before tabs.update.
C38_WrittenBeforeUpdate ==
  [][ \A t \in Trigs :
        (trig[t].pc = "e_got_tabs" /\ MultiStepNavigating(t)')
          => /\ tab'.status = "loading"
             /\ tab'.url = Instr(trig[t].instruction).target_url
             /\ pendingAutomation'.present
             /\ pendingAutomation'.instruction = trig[t].instruction
             /\ pendingAutomation'.currentStepIndex = 0
             /\ pendingAutomation'.executedSteps = << >> ]_vars

\* C38: durability before navigation: for a multi_step_navigation
\* instruction that needs navigation the pendingAutomation record with
\* currentStepIndex 0 is written to the store before tabs.update is issued,
\* so that in every state in which the navigation of a multi-step run has
\* been started (the run waits for the page) the record exists.
C38_RecordBeforeNavigation ==
  \A t \in Trigs : MultiStepNavigating(t) => pendingAutomation.present

\* The navigation a WORKDAY_CARD_CLICKED message has started is complete:
\* in the scenario of the card nothing else sends the tab to Workday.
CardNavigationComplete ==
  /\ \E i \in 1..Len(log) : log[i].ev = "card"
  /\ tab.open /\ tab.url = UrlWorkday /\ tab.status = "complete"

\* No executeAutomation is under way, so nothing is left that would clear
\* navigationInProgress.
NoRunUnderWay ==
  \A t \in Trigs : trig[t].pc \in {"idle", "p_got_pending", "p_got_tabs"}

\* With polls alone the flag then stays set: every poll returns at
\* 'Navigation in progress' and fetches nothing.
C35_SkippedForEver ==
  [][ (navigationInProgress /\ NoRunUnderWay)
        => (navigationInProgress' /\ NoRunUnderWay'
            /\ \A i \in 1..Len(log') : log'[i].ev = "fetch" => i <= Len(log)) ]_vars

\* C35: after a WORKDAY_CARD_CLICKED message has set navigationInProgress
\* and started the manual navigation, navigationInProgress is cleared once
\* that navigation completes, so that later polls are not skipped for ever
\* with 'Navigation in progress'.  Checked in its finite form: when the tab
\* has completed the navigation to the link target and no run is under way,
\* navigationInProgress is false.
C35_FlagClearedAfterCardNavigation ==
  (CardNavigationComplete /\ NoRunUnderWay) => ~navigationInProgress

\* The calls of the activation that have delivered a click event to the
\* element, and the calls of its catch block.
Delivered == {i \in 1..Len(act.calls) : ~act.calls[i].raised}
FallbackCalls == {i \in 1..Len(act.calls) : act.calls[i].block = "fallback"}

\* C31: for every click step whose element is a link or lies inside a link
\* the default navigation of the page is suppressed and the link target
\* (href) is reported to the orchestrator through a side-channel message,
\* so that the tab navigates only by a tabs.update of the orchestrator: no
\* click event of the activation sets off the navigation of the link, and a
\* step that has succeeded has sent WORKDAY_CARD_CLICKED with the href.
C31_LinkNavigationSuppressed ==
  act.element.link # "none"
    => /\ ~act.navigated
       /\ (act.pc = "done" /\ act.result = "success")
            => (act.message.sent /\ act.message.href = act.element.href)

\* The same for the links whose description names Workday and whose element
\* has a click method.
C31_WorkdayCardSuppressed ==
  (act.element.link # "none" /\ act.description.workday
   /\ ~act.description.academics /\ act.element.hasClick)
    => /\ ~act.navigated
       /\ (act.pc = "done" /\ act.result = "success")
            => (act.message.sent /\ act.message.href = act.element.href)

\* C32: the activation fallback: when the native click on the element
\* raises in the activation block, exactly one dispatch of a synthesized
\* MouseEvent is attempted after it; when that succeeds the step is
\* reported as a success, and when it raises too the error surfaced as the
\* failure of the step is the one of the click, not the one of the dispatch.
C32_OneFallbackDispatch ==
  /\ (act.pc = "done"
      /\ \E i \in 1..Len(act.calls) :
           /\ act.calls[i].call = "click" /\ act.calls[i].block = "activate"
           /\ act.calls[i].raised)
       => /\ Cardinality(FallbackCalls) = 1
          /\ \A i \in FallbackCalls :
               /\ i = Len(act.calls)
               /\ act.calls[i].call = "dispatch"
               /\ act.calls[i - 1].call = "click" /\ act.calls[i - 1].raised
               /\ ~act.calls[i].raised => act.result = "success"
               /\ act.calls[i].raised
                    => (act.result = "failed" /\ act.error = i - 1)
  /\ act.result = "failed" => FallbackCalls # {}

\* The click of an element without a click method has raised, the dispatch
\* has raised as well, and the step has failed with the error of the click.
C32_Witness ==
  /\ act.pc = "done" /\ act.result = "failed"
  /\ Len(act.calls) = 2
  /\ act.calls[1].call = "click" /\ act.calls[1].raised
  /\ act.calls[2].call = "dispatch" /\ act.calls[2].raised
  /\ act.error = 1

\* The click has raised and the dispatch that followed has delivered the
\* event: the step is a success.
C32_WitnessSuccess ==
  /\ act.pc = "done" /\ act.result = "success"
  /\ Len(act.calls) = 2
  /\ act.calls[1].call = "click" /\ act.calls[1].raised
  /\ act.calls[2].block = "fallback" /\ ~act.calls[2].raised

\* C39: a click step that succeeds activates the element exactly once: for
\* every kind of element (a plain element, a link or an element inside a
\* link, the Workday card, the 'Academics' button) exactly one click event
\* is delivered to the element per step.
C39_ActivatedOnce ==
  (act.pc = "done" /\ act.result = "success") => Cardinality(Delivered) = 1

\* The same for the elements that are no link and lie in none.
C39_PlainActivatedOnce ==
  (act.pc = "done" /\ act.result = "success" /\ act.element.link = "none")
    => Cardinality(Delivered) = 1

====
